---- MODULE Spec2Model ----
(***************************************************************************)
(* Verification model of the review-context core of the Backlog AI code    *)
(* review extension:                                                       *)
(*   - the definition collector  (review/definitionTracker.ts)             *)
(*   - the diff engine wrappers  (git/diffAnalyzer.ts)                     *)
(*   - the review panel          (ui/reviewPanel.ts)                       *)
(*   - the commands              (extension.ts)                            *)
(***************************************************************************)
EXTENDS Integers, Sequences, FiniteSets, TLC

Min(a, b) == IF a <= b THEN a ELSE b
Max(a, b) == IF a >= b THEN a ELSE b

(***************************************************************************)
(* Bounds of the model.                                                    *)
(***************************************************************************)
\* external calls (openTextDocument / executeDefinitionProvider) that may fail in one traversal
MaxFaults == 1
\* characters of a text when every pair of texts is compared
MaxTextLen == 4
\* characters of the old text when the new text is one edit away from it
MaxLongLen == 7
MaxEndLen == 1
\* lines of a document handed to extractDefinitionBlock, every line being of any kind
MaxDocLines == 4
\* characters of a line handed to extractIdentifiers
MaxLineLen == 6
\* reviews run in one window, and clicks of the post button
MaxReviews == 3
MaxClicks == 3
\* executions of backlogReview.startReview
MaxRuns == 2

(***************************************************************************)
(* The workspace the collector runs in: three documents, given line by     *)
(* line.  A line carries what the collector reads from its text:           *)
(*   decl   - the text matches the declaration pattern of                  *)
(*            extractDefinitionBlock                                       *)
(*   opens  - number of '{' in the text,  closes - number of '}'           *)
(*   len    - lineText.length                                              *)
(*   idents - the {name, col} list extractIdentifiers finds in the text    *)
(***************************************************************************)
Files == {"X", "Y", "Z"}

TextLine(decl, opens, closes, len, idents) ==
    [decl |-> decl, opens |-> opens, closes |-> closes, len |-> len, idents |-> idents]

Ident(name, col) == [name |-> name, col |-> col]

\* X:  foo(); bar();
\*     foo();
\* Y:  function baz() {
\*       let v = 1;
\*       return qux(v);
\*     }
\* Z:  export class Kit {
\*     }
TextDocument(uri) ==
    CASE uri = "X" -> << TextLine(FALSE, 0, 0, 13, << Ident("foo", 0), Ident("bar", 7) >>),
                         TextLine(FALSE, 0, 0, 6, << Ident("foo", 0) >>) >>
      [] uri = "Y" -> << TextLine(TRUE, 1, 0, 16, << Ident("baz", 9) >>),
                         TextLine(FALSE, 0, 0, 12, << >>),
                         TextLine(FALSE, 0, 0, 16, << Ident("qux", 9) >>),
                         TextLine(FALSE, 0, 1, 1, << >>) >>
      [] uri = "Z" -> << TextLine(TRUE, 1, 0, 18, << >>),
                         TextLine(FALSE, 0, 1, 1, << >>) >>

lineCount(doc) == Len(doc)

\* document.lineAt(i), i 0-based; the caller guards the range
lineAt(doc, i) == doc[i + 1]

\* extractIdentifiers(lineText): the identifiers of a line, left to right
extractIdentifiers(line) == line.idents

\* the positions (uri, 0-based line, col) at which a document has an identifier
Sites ==
    UNION { UNION { { << f, i - 1, extractIdentifiers(TextDocument(f)[i])[j].col >> :
                        j \in 1..Len(extractIdentifiers(TextDocument(f)[i])) } :
                    i \in 1..lineCount(TextDocument(f)) } :
            f \in Files }

(***************************************************************************)
(* The symbol-resolution capability (vscode.executeDefinitionProvider).    *)
(* A Location is (uri, range.start.line); an answer is a sequence of       *)
(* locations.  The reference table refs fixes the answer at every site.    *)
(***************************************************************************)
Location(uri, line) == [uri |-> uri, line |-> line]

Answers ==
    { << >>,
      << Location("X", 0) >>,
      << Location("Y", 0) >>,
      << Location("Z", 0) >>,
      << Location("Y", 1), Location("Z", 0) >> }

\* the answers explored at each site.  Line 3 of Y is never a start or midpoint
\* line, and the second identifier of X's first line stands for a repeated use
\* of one symbol.
AnswersAt(site) ==
    CASE site = << "X", 0, 7 >> -> { << >>, << Location("Y", 0) >> }
      [] site = << "Y", 2, 9 >> -> { << >>, << Location("Z", 0) >> }
      [] OTHER -> Answers

\* the origin file and the changed-line lists handed to the collector
OriginFile == "X"
SeedLists == { << 1, 2 >>, << 0, 1 >> }

\* the definitionDepth settings explored; the maxCharsPerFile settings explored
DepthChoices == {0, 1, 2, 5}
BudgetChoices == {20, 20000}

VARIABLES
    refs,             \* resolver table: Sites -> Answers
    changedLines,     \* argument of gatherDefinitionsForChangedLines
    maxDepth,         \* argument
    maxCharsPerFile,  \* argument
    stack,            \* call stack of gatherRecursive, innermost frame last
    visited,          \* the shared Set<string>
    results,          \* the shared DefinitionContext[]
    opened,           \* log of openTextDocument calls, in call order
    resolved,         \* log of executeDefinitionProvider calls, in call order
    faults,           \* external calls that failed so far
    status,           \* "running" | "returned" | "rejected"
    cancellation,     \* the cancellation token of executeReview, with the calls made when it was raised
    tracking,         \* runDefinitionTracking: its fileDiffs, loop position, allDefinitions, outcomes
    pending,          \* a second call of gatherDefinitionsForChangedLines waiting at an await
    extraction,       \* a call of extractDefinitionBlock: its arguments and its result
    lexing,           \* a call of extractIdentifiers: the line text and the result
    webview,          \* the ReviewPanel singleton, its message listeners, the comments posted
    session,          \* backlogReview.startReview: the settings, cfg, the client constructed
    oldContent,       \* argument of generateUnifiedDiff
    newContent,       \* argument of generateUnifiedDiff
    filename,         \* argument of generateUnifiedDiff
    editScript,       \* the line edit script the diff library settled on
    diffText,         \* result of generateUnifiedDiff
    fileDiffs,        \* result of parseDiff
    changedLineNumbers, \* result of getChangedLineNumbers
    dpc               \* "texts" | "rendered" | "parsed" | "extracted" | "idle"

gatherVars == << refs, changedLines, maxDepth, maxCharsPerFile, stack, visited, results,
                 opened, resolved, faults, status, cancellation, tracking, pending >>
diffVars == << oldContent, newContent, filename, editScript, diffText, fileDiffs,
               changedLineNumbers, dpc >>
unitVars == << extraction, lexing, webview, session >>
vars == << gatherVars, diffVars, unitVars >>

\* keys of the visited set: `${uri}`, `${uri}:${lineNo}:${col}`, `${uri}:${line}`
FileKey(uri) == << "file", uri >>
ProbeKey(uri, lineNo, col) == << "probe", uri, lineNo, col >>
\* mutant: the definition key is built without the line, `${loc.uri.toString()}`
DefKey_WithoutLine(uri, line) == << "file", uri >>
DefKey(uri, line) == << "def", uri, line >>

\* an entry of the log of provider calls: the position asked, and whether the call threw
ProviderCall(uri, line, col, threw) == [uri |-> uri, line |-> line, col |-> col, threw |-> threw]

\* the answer of the definition provider at a position
executeDefinitionProvider(uri, line, col) ==
    IF << uri, line, col >> \in Sites THEN refs[<< uri, line, col >>] ELSE << >>

(***************************************************************************)
(* extractDefinitionBlock(doc, startLineIndex, maxChars)                   *)
(***************************************************************************)
\* mutant: the upward scan looks one line further
BlockStart_OneLineFurther(doc, startLineIndex) ==
    LET cands == { i \in Max(0, startLineIndex - 21)..startLineIndex : lineAt(doc, i).decl }
    IN IF cands = {} THEN startLineIndex
       ELSE CHOOSE i \in cands : \A j \in cands : j <= i
\* the upward scan for a declaration line, at most 20 lines above
BlockStart(doc, startLineIndex) ==
    LET cands == { i \in Max(0, startLineIndex - 20)..startLineIndex : lineAt(doc, i).decl }
    IN IF cands = {} THEN startLineIndex
       ELSE CHOOSE i \in cands : \A j \in cands : j <= i

\* mutant: a scan that reaches the end of the document ends the block there
RECURSIVE BlockEnd_AtEndOfFile(_, _, _, _, _, _, _)
BlockEnd_AtEndOfFile(doc, i, braceDepth, foundOpenBrace, charCount, maxChars, blockStart) ==
    IF i >= lineCount(doc) THEN lineCount(doc) - 1
    ELSE LET line == lineAt(doc, i)
             cc == charCount + line.len + 1
             bd == braceDepth + line.opens - line.closes
             fo == foundOpenBrace \/ line.opens > 0
         IN IF fo /\ bd = 0 THEN i
            ELSE IF cc > maxChars THEN i
            ELSE BlockEnd_AtEndOfFile(doc, i + 1, bd, fo, cc, maxChars, blockStart)
\* the downward brace scan from line i; yields blockEnd
RECURSIVE BlockEnd(_, _, _, _, _, _, _)
BlockEnd(doc, i, braceDepth, foundOpenBrace, charCount, maxChars, blockStart) ==
    IF i >= lineCount(doc) THEN blockStart
    ELSE LET line == lineAt(doc, i)
             cc == charCount + line.len + 1
             bd == braceDepth + line.opens - line.closes
             fo == foundOpenBrace \/ line.opens > 0
         IN IF fo /\ bd = 0 THEN i
            ELSE IF cc > maxChars THEN i
            ELSE BlockEnd(doc, i + 1, bd, fo, cc, maxChars, blockStart)

\* length of doc.getText(new Range(first, 0, last + 1, 0)); the range is clipped at
\* the end of the document, whose last line has no line terminator
RECURSIVE TextLength(_, _, _)
TextLength(doc, first, last) ==
    IF first > last THEN 0
    ELSE lineAt(doc, first).len
         + (IF first + 1 < lineCount(doc) THEN 1 ELSE 0)
         + TextLength(doc, first + 1, last)

\* mutant: endLine is returned 0-based
extractDefinitionBlock_ZeroBasedEnd(doc, startLineIndex, maxChars) ==
    LET blockStart == BlockStart(doc, startLineIndex)
        blockEnd == BlockEnd(doc, blockStart, 0, FALSE, 0, maxChars, blockStart)
    IN [ startLine |-> blockStart + 1,
         endLine |-> blockEnd,
         content |-> [ from |-> blockStart,
                       length |-> Min(TextLength(doc, blockStart, blockEnd), maxChars) ] ]
\* mutant: the content is not cut to maxChars
extractDefinitionBlock_Untruncated(doc, startLineIndex, maxChars) ==
    LET blockStart == BlockStart(doc, startLineIndex)
        blockEnd == BlockEnd(doc, blockStart, 0, FALSE, 0, maxChars, blockStart)
    IN [ startLine |-> blockStart + 1,
         endLine |-> blockEnd + 1,
         content |-> [ from |-> blockStart,
                       length |-> TextLength(doc, blockStart, blockEnd) ] ]

extractDefinitionBlock(doc, startLineIndex, maxChars) ==
    LET blockStart == BlockStart(doc, startLineIndex)
        blockEnd == BlockEnd(doc, blockStart, 0, FALSE, 0, maxChars, blockStart)
    IN [ startLine |-> blockStart + 1,
         endLine |-> blockEnd + 1,
         \* content.slice(0, maxChars): the text from line blockStart on, by length
         content |-> [ from |-> blockStart,
                       length |-> Min(TextLength(doc, blockStart, blockEnd), maxChars) ] ]

(***************************************************************************)
(* gatherRecursive, one frame per active call.                             *)
(*   pc = "enter"  before the depth gate                                   *)
(*   pc = "lines"  in the loops over targetLines / identifiers             *)
(*   pc = "locs"   in the loop over the locations of one probe             *)
(***************************************************************************)
Frame(fileUri, targetLines, currentDepth) ==
    [ fileUri |-> fileUri, targetLines |-> targetLines, currentDepth |-> currentDepth,
      pc |-> "enter", li |-> 1, ii |-> 1, name |-> "", locations |-> << >>, k |-> 1 ]

Top == stack[Len(stack)]
Running == status = "running" /\ Len(stack) > 0
ReplaceTop(f) == [stack EXCEPT ![Len(stack)] = f]
Pop == SubSeq(stack, 1, Len(stack) - 1)

\* the frame returns: control goes back to the caller, or the traversal is over
Return ==
    /\ stack' = Pop
    /\ status' = IF Len(stack) = 1 THEN "returned" ELSE "running"

\* the frame throws: the caller's catch (line 126) goes on with its next location;
\* with no caller the promise of gatherDefinitionsForChangedLines rejects
Throw ==
    /\ stack' = Pop
    /\ status' = IF Len(stack) = 1 THEN "rejected" ELSE "running"

\* what no step of the collector changes: its arguments, the resolver, and the
\* state it does not read
Inputs == << refs, changedLines, maxDepth, maxCharsPerFile, cancellation, tracking, pending,
            diffVars, unitVars >>

\* runDefinitionTracking is not running
NotTracking == [ pc |-> "idle", files |-> << >>, fd |-> 1, allDefinitions |-> << >>,
                 outcomes |-> << >>, faultsBefore |-> 0 ]

\* gatherDefinitionsForChangedLines has one pending call only
NotPending == [ phase |-> "none" ]

\* extension.ts line 451: new vscode.CancellationTokenSource()
NotCancelled == [ isCancellationRequested |-> FALSE, opened |-> 0, resolved |-> 0 ]

\* no call of extractDefinitionBlock or extractIdentifiers, no review panel and
\* no startReview command is under way
NotInUse == [ pc |-> "idle" ]
UnitsIdle ==
    /\ extraction = NotInUse /\ lexing = NotInUse
    /\ webview = NotInUse /\ session = NotInUse

\* the diff engine is not in use
DiffIdle ==
    /\ oldContent = << >> /\ newContent = << >> /\ filename = ""
    /\ editScript = << >> /\ diffText = << >> /\ fileDiffs = << >>
    /\ changedLineNumbers = << >> /\ dpc = "idle"

InitGather ==
    /\ refs \in { r \in [Sites -> Answers] : \A site \in Sites : r[site] \in AnswersAt(site) }
    /\ changedLines \in SeedLists
    /\ maxDepth \in DepthChoices
    /\ maxCharsPerFile \in BudgetChoices
    /\ stack = << Frame(OriginFile, changedLines, 0) >>
    /\ visited = {}
    /\ results = << >>
    /\ opened = << >>
    /\ resolved = << >>
    /\ faults = 0
    /\ status = "running"
    /\ cancellation = NotCancelled
    /\ tracking = NotTracking
    /\ pending = NotPending
    /\ DiffIdle
    /\ UnitsIdle

\* mutant: the gate compares with > instead of >=
DepthExceeded_OffByOne(currentDepth, depthLimit) == currentDepth > depthLimit
\* line 40: if (currentDepth >= maxDepth) { return; }
DepthExceeded(currentDepth, depthLimit) == currentDepth >= depthLimit

\* line 40
DepthGate ==
    /\ Running /\ Top.pc = "enter"
    /\ DepthExceeded(Top.currentDepth, maxDepth)
    /\ Return
    /\ UNCHANGED << Inputs, visited, results, opened, resolved, faults >>

\* lines 44-52, the file is new to this traversal
OpenTextDocument ==
    /\ Running /\ Top.pc = "enter"
    /\ ~DepthExceeded(Top.currentDepth, maxDepth)
    /\ FileKey(Top.fileUri) \notin visited
    /\ opened' = Append(opened, Top.fileUri)
    /\ visited' = visited \cup { FileKey(Top.fileUri) }
    /\ stack' = ReplaceTop([Top EXCEPT !.pc = "lines"])
    /\ UNCHANGED << Inputs, results, resolved, faults, status >>

\* mutant: a file visited before is scanned again
SkipVisitedFile_Rescan ==
    /\ Running /\ Top.pc = "enter"
    /\ ~DepthExceeded(Top.currentDepth, maxDepth)
    /\ FileKey(Top.fileUri) \in visited
    /\ opened' = Append(opened, Top.fileUri)
    /\ stack' = ReplaceTop([Top EXCEPT !.pc = "lines"])
    /\ UNCHANGED << Inputs, visited, results, resolved, faults, status >>
\* lines 44-51, the file was visited before
SkipVisitedFile ==
    /\ Running /\ Top.pc = "enter"
    /\ ~DepthExceeded(Top.currentDepth, maxDepth)
    /\ FileKey(Top.fileUri) \in visited
    /\ opened' = Append(opened, Top.fileUri)
    /\ Return
    /\ UNCHANGED << Inputs, visited, results, resolved, faults >>

\* lines 44-48, openTextDocument rejects
OpenTextDocumentFails ==
    /\ Running /\ Top.pc = "enter"
    /\ ~DepthExceeded(Top.currentDepth, maxDepth)
    /\ faults < MaxFaults
    /\ faults' = faults + 1
    /\ opened' = Append(opened, Top.fileUri)
    /\ Return
    /\ UNCHANGED << Inputs, visited, results, resolved >>

InLines == Running /\ Top.pc = "lines"
AtLine == InLines /\ Top.li <= Len(Top.targetLines)
LineNo == Top.targetLines[Top.li]
LineIndex == Min(LineNo - 1, lineCount(TextDocument(Top.fileUri)) - 1)
Identifiers == extractIdentifiers(lineAt(TextDocument(Top.fileUri), LineIndex))
AtIdentifier == AtLine /\ LineIndex >= 0 /\ Top.ii <= Len(Identifiers)
CurIdent == Identifiers[Top.ii]

\* line 55, the loop over targetLines is over
EndOfLines ==
    /\ InLines /\ Top.li > Len(Top.targetLines)
    /\ Return
    /\ UNCHANGED << Inputs, visited, results, opened, resolved, faults >>

\* line 56, document.lineAt with a negative line throws
LineAtThrows ==
    /\ AtLine /\ LineIndex < 0
    /\ Throw
    /\ UNCHANGED << Inputs, visited, results, opened, resolved, faults >>

\* mutant: the loop over the identifiers starts over on the same line
EndOfIdentifiers_SameLine ==
    /\ AtLine /\ LineIndex >= 0 /\ Top.ii > Len(Identifiers)
    /\ stack' = ReplaceTop([Top EXCEPT !.ii = 1])
    /\ UNCHANGED << Inputs, visited, results, opened, resolved, faults, status >>
\* line 62, the loop over the identifiers of the line is over
EndOfIdentifiers ==
    /\ AtLine /\ LineIndex >= 0 /\ Top.ii > Len(Identifiers)
    /\ stack' = ReplaceTop([Top EXCEPT !.li = @ + 1, !.ii = 1])
    /\ UNCHANGED << Inputs, visited, results, opened, resolved, faults, status >>

\* lines 64-65
SkipVisitedProbe ==
    /\ AtIdentifier
    /\ ProbeKey(Top.fileUri, LineNo, CurIdent.col) \in visited
    /\ stack' = ReplaceTop([Top EXCEPT !.ii = @ + 1])
    /\ UNCHANGED << Inputs, visited, results, opened, resolved, faults, status >>

\* mutant: the probe key is not looked up before the provider is asked
ExecuteDefinitionProvider_NoProbeCheck ==
    /\ AtIdentifier
    /\ visited' = visited \cup { ProbeKey(Top.fileUri, LineNo, CurIdent.col) }
    /\ LET posLine == Max(LineNo - 1, 0)
           defs == executeDefinitionProvider(Top.fileUri, posLine, CurIdent.col)
       IN /\ resolved' = Append(resolved, ProviderCall(Top.fileUri, posLine, CurIdent.col, FALSE))
          /\ stack' = ReplaceTop(
                 IF Len(defs) = 0
                 THEN [Top EXCEPT !.ii = @ + 1]
                 ELSE [Top EXCEPT !.pc = "locs", !.name = CurIdent.name,
                                  !.locations = defs, !.k = 1])
    /\ UNCHANGED << Inputs, results, opened, faults, status >>
\* lines 63-83
ExecuteDefinitionProvider ==
    /\ AtIdentifier
    /\ ProbeKey(Top.fileUri, LineNo, CurIdent.col) \notin visited
    /\ visited' = visited \cup { ProbeKey(Top.fileUri, LineNo, CurIdent.col) }
    /\ LET posLine == Max(LineNo - 1, 0)
           defs == executeDefinitionProvider(Top.fileUri, posLine, CurIdent.col)
       IN /\ resolved' = Append(resolved, ProviderCall(Top.fileUri, posLine, CurIdent.col, FALSE))
          /\ stack' = ReplaceTop(
                 IF Len(defs) = 0
                 THEN [Top EXCEPT !.ii = @ + 1]
                 ELSE [Top EXCEPT !.pc = "locs", !.name = CurIdent.name,
                                  !.locations = defs, !.k = 1])
    /\ UNCHANGED << Inputs, results, opened, faults, status >>

\* mutant: the call of the provider is outside the try block, its error propagates
DefinitionProviderThrows_Uncaught ==
    /\ AtIdentifier
    /\ ProbeKey(Top.fileUri, LineNo, CurIdent.col) \notin visited
    /\ faults < MaxFaults
    /\ faults' = faults + 1
    /\ visited' = visited \cup { ProbeKey(Top.fileUri, LineNo, CurIdent.col) }
    /\ resolved' = Append(resolved, ProviderCall(Top.fileUri, Max(LineNo - 1, 0), CurIdent.col, TRUE))
    /\ Throw
    /\ UNCHANGED << Inputs, results, opened >>
\* lines 63-74, 84-86: the provider throws
DefinitionProviderThrows ==
    /\ AtIdentifier
    /\ ProbeKey(Top.fileUri, LineNo, CurIdent.col) \notin visited
    /\ faults < MaxFaults
    /\ faults' = faults + 1
    /\ visited' = visited \cup { ProbeKey(Top.fileUri, LineNo, CurIdent.col) }
    /\ resolved' = Append(resolved, ProviderCall(Top.fileUri, Max(LineNo - 1, 0), CurIdent.col, TRUE))
    /\ stack' = ReplaceTop([Top EXCEPT !.ii = @ + 1])
    /\ UNCHANGED << Inputs, results, opened, status >>

InLocs == Running /\ Top.pc = "locs"
AtLoc == InLocs /\ Top.k <= Len(Top.locations)
Loc == Top.locations[Top.k]

\* mutant: the test of line 90 is missing, a location in the same file is taken
NewDefinition_SameFile ==
    AtLoc /\ DefKey(Loc.uri, Loc.line) \notin visited
\* mutant: the check of the definition key (line 93) is missing
NewDefinition_NoDedup ==
    AtLoc /\ Loc.uri # Top.fileUri
\* lines 90-93: the location is in another file and its key is new
NewDefinition ==
    AtLoc /\ Loc.uri # Top.fileUri /\ DefKey(Loc.uri, Loc.line) \notin visited

\* line 88, the loop over the locations is over
EndOfLocations ==
    /\ InLocs /\ Top.k > Len(Top.locations)
    /\ stack' = ReplaceTop([Top EXCEPT !.pc = "lines", !.ii = @ + 1])
    /\ UNCHANGED << Inputs, visited, results, opened, resolved, faults, status >>

\* line 90
SkipSameFile ==
    /\ AtLoc /\ Loc.uri = Top.fileUri
    /\ stack' = ReplaceTop([Top EXCEPT !.k = @ + 1])
    /\ UNCHANGED << Inputs, visited, results, opened, resolved, faults, status >>

\* lines 92-93
SkipVisitedDefinition ==
    /\ AtLoc /\ Loc.uri # Top.fileUri
    /\ DefKey(Loc.uri, Loc.line) \in visited
    /\ stack' = ReplaceTop([Top EXCEPT !.k = @ + 1])
    /\ UNCHANGED << Inputs, visited, results, opened, resolved, faults, status >>

\* the record pushed at lines 106-113
DefinitionContext(name, fileUri, loc, block) ==
    [ symbolName |-> name,
      originFile |-> fileUri,
      definitionFile |-> loc.uri,
      definitionContent |-> block.content,
      startLine |-> block.startLine,
      endLine |-> block.endLine ]

\* mutant: the recursion is seeded with every line of the block
NextLines_WholeBlock(block) ==
    [i \in 1..(block.endLine - block.startLine + 1) |-> block.startLine + i - 1]
\* line 116
NextLines(block) == << block.startLine, (block.startLine + block.endLine) \div 2 >>

\* mutant: the definition is recorded and its file is not entered
RecordDefinition_NoRecursion ==
    /\ NewDefinition
    /\ visited' = visited \cup { DefKey(Loc.uri, Loc.line) }
    /\ opened' = Append(opened, Loc.uri)
    /\ LET block == extractDefinitionBlock(TextDocument(Loc.uri), Loc.line, maxCharsPerFile)
       IN /\ results' = Append(results, DefinitionContext(Top.name, Top.fileUri, Loc, block))
          /\ stack' = ReplaceTop([Top EXCEPT !.k = @ + 1])
    /\ UNCHANGED << Inputs, resolved, faults, status >>
\* mutant: the record is put in front of the list (unshift for push)
RecordDefinition_Unshift ==
    /\ NewDefinition
    /\ visited' = visited \cup { DefKey(Loc.uri, Loc.line) }
    /\ opened' = Append(opened, Loc.uri)
    /\ LET block == extractDefinitionBlock(TextDocument(Loc.uri), Loc.line, maxCharsPerFile)
       IN /\ results' = << DefinitionContext(Top.name, Top.fileUri, Loc, block) >> \o results
          /\ stack' = Append(ReplaceTop([Top EXCEPT !.k = @ + 1]),
                             Frame(Loc.uri, NextLines(block), Top.currentDepth + 1))
    /\ UNCHANGED << Inputs, resolved, faults, status >>
\* lines 92-125: record the definition and call gatherRecursive on its file
RecordDefinition ==
    /\ NewDefinition
    /\ visited' = visited \cup { DefKey(Loc.uri, Loc.line) }
    /\ opened' = Append(opened, Loc.uri)
    /\ LET block == extractDefinitionBlock(TextDocument(Loc.uri), Loc.line, maxCharsPerFile)
       IN /\ results' = Append(results, DefinitionContext(Top.name, Top.fileUri, Loc, block))
          /\ stack' = Append(ReplaceTop([Top EXCEPT !.k = @ + 1]),
                             Frame(Loc.uri, NextLines(block), Top.currentDepth + 1))
    /\ UNCHANGED << Inputs, resolved, faults, status >>

\* lines 92-97, 126-128: the definition file cannot be opened
OpenDefinitionFails ==
    /\ NewDefinition
    /\ faults < MaxFaults
    /\ faults' = faults + 1
    /\ visited' = visited \cup { DefKey(Loc.uri, Loc.line) }
    /\ opened' = Append(opened, Loc.uri)
    /\ stack' = ReplaceTop([Top EXCEPT !.k = @ + 1])
    /\ UNCHANGED << Inputs, results, resolved, status >>

\* the steps that call gatherRecursive on no further file
LocalStep ==
    \/ DepthGate
    \/ OpenTextDocument
    \/ SkipVisitedFile
    \/ OpenTextDocumentFails
    \/ EndOfLines
    \/ LineAtThrows
    \/ EndOfIdentifiers
    \/ SkipVisitedProbe
    \/ ExecuteDefinitionProvider
    \/ DefinitionProviderThrows
    \/ EndOfLocations
    \/ SkipSameFile
    \/ SkipVisitedDefinition
    \/ OpenDefinitionFails

NextGather == LocalStep \/ RecordDefinition

SpecGather == InitGather /\ [][NextGather]_vars

\* every await of the traversal settles, so a traversal that can step does step
SpecGatherFair == SpecGather /\ WF_vars(NextGather)

(***************************************************************************)
(* Cancellation of a review (extension.ts executeReview): the progress      *)
(* notification is cancellable and its token cancels cancellationSource.   *)
(* runDefinitionTracking and the collector are not handed the token.       *)
(***************************************************************************)
\* extension.ts line 460: token.onCancellationRequested(() => cancellationSource.cancel())
Cancel ==
    /\ Running
    /\ ~cancellation.isCancellationRequested
    /\ cancellation' = [ isCancellationRequested |-> TRUE,
                         opened |-> Len(opened), resolved |-> Len(resolved) ]
    /\ UNCHANGED << refs, changedLines, maxDepth, maxCharsPerFile, stack, visited, results,
                    opened, resolved, faults, status, tracking, pending, diffVars, unitVars >>

\* the collector with definitionDepth 2 and a budget of 20 characters, under a
\* review that may be cancelled
InitCancel ==
    /\ InitGather
    /\ maxDepth = 2
    /\ maxCharsPerFile = 20

NextCancel == NextGather \/ Cancel

SpecCancel == InitCancel /\ [][NextCancel]_vars

(***************************************************************************)
(* The diff engine (git/diffAnalyzer.ts).  A text is a sequence of         *)
(* characters.  generateUnifiedDiff hands the two texts to the diff        *)
(* library (createTwoFilesPatch, context 5), parseDiff reads the patch     *)
(* text back (parsePatch).                                                 *)
(***************************************************************************)
\* diffAnalyzer.ts line 35: { context: 5 }
Context == 5

NL == "\n"
Alphabet == { "a", NL }

TextsUpTo(n) == UNION { [1..k -> Alphabet] : k \in 0..n }

\* the texts one character edit away from t
OneEdit(t) ==
    { SubSeq(t, 1, i - 1) \o SubSeq(t, i + 1, Len(t)) : i \in 1..Len(t) }
    \cup { SubSeq(t, 1, i) \o << c >> \o SubSeq(t, i + 1, Len(t)) :
             i \in 0..Len(t), c \in Alphabet }
    \cup { [t EXCEPT ![i] = c] : i \in 1..Len(t), c \in Alphabet }

Filenames == { "f.ts", "src/g.ts" }

\* unchanged lines enough to keep the changes before and after them in
\* separate hunks
GapLine == << "a", "a", NL >>
Gap == [i \in 1..(3 * (2 * Context + 1)) |-> GapLine[((i - 1) % 3) + 1]]

\* the library splits a text into lines, each keeping its line terminator
RECURSIVE splitLines(_)
splitLines(text) ==
    IF text = << >> THEN << >>
    ELSE LET ends == { i \in 1..Len(text) : text[i] = NL }
         IN IF ends = {} THEN << text >>
            ELSE LET k == CHOOSE i \in ends : \A j \in ends : i <= j
                 IN << SubSeq(text, 1, k) >> \o splitLines(SubSeq(text, k + 1, Len(text)))

\* length of a longest common subsequence of a[i..] and b[j..]
RECURSIVE Lcs(_, _, _, _)
Lcs(a, b, i, j) ==
    IF i > Len(a) \/ j > Len(b) THEN 0
    ELSE IF a[i] = b[j] THEN 1 + Lcs(a, b, i + 1, j + 1)
    ELSE Max(Lcs(a, b, i + 1, j), Lcs(a, b, i, j + 1))

\* the minimal line edit scripts from a[i..] to b[j..]: "=" keeps a line, "-"
\* removes a line of a, "+" adds a line of b; within a run of changes the
\* removals come first, as the library orders them
RECURSIVE EditScripts(_, _, _, _)
EditScripts(a, b, i, j) ==
    IF i > Len(a) /\ j > Len(b) THEN { << >> }
    ELSE LET l == Lcs(a, b, i, j)
             keep == IF i <= Len(a) /\ j <= Len(b) /\ a[i] = b[j]
                     THEN { << "=" >> \o e : e \in EditScripts(a, b, i + 1, j + 1) }
                     ELSE {}
             del == IF i <= Len(a) /\ Lcs(a, b, i + 1, j) = l
                    THEN { << "-" >> \o e : e \in EditScripts(a, b, i + 1, j) }
                    ELSE {}
             ins == IF j <= Len(b) /\ Lcs(a, b, i, j + 1) = l
                    THEN { << "+" >> \o e :
                             e \in { x \in EditScripts(a, b, i, j + 1) : x = << >> \/ x[1] # "-" } }
                    ELSE {}
         IN keep \cup del \cup ins

\* the change objects of the library: runs of equal operations with their lines
RECURSIVE Changes(_, _, _, _, _, _)
Changes(script, a, b, k, i, j) ==
    IF k > Len(script) THEN << >>
    ELSE LET op == script[k]
             line == IF op = "+" THEN b[j] ELSE a[i]
             rest == Changes(script, a, b, k + 1,
                             IF op = "+" THEN i ELSE i + 1,
                             IF op = "-" THEN j ELSE j + 1)
         IN IF rest # << >> /\ rest[1].op = op
            THEN << [op |-> op, lines |-> << line >> \o rest[1].lines] >> \o Tail(rest)
            ELSE << [op |-> op, lines |-> << line >>] >> \o rest

LastLines(lines, n) == SubSeq(lines, Max(1, Len(lines) - n + 1), Len(lines))
Prefixed(c, lines) == [i \in 1..Len(lines) |-> << c >> \o lines[i]]

\* step 1 of structuredPatch: the hunks, their lines still carrying line terminators
RECURSIVE HunkLoop(_, _, _)
HunkLoop(diff, i, st) ==
    IF i > Len(diff) THEN st.hunks
    ELSE LET lines == diff[i].lines IN
         IF diff[i].op # "="
         THEN LET opened_ == IF st.oldRangeStart # 0 THEN st
                             ELSE LET cur == IF i > 1 /\ Context > 0
                                             THEN Prefixed(" ", LastLines(diff[i - 1].lines, Context))
                                             ELSE << >>
                                  IN [st EXCEPT !.curRange = cur,
                                                !.oldRangeStart = st.oldLine - Len(cur),
                                                !.newRangeStart = st.newLine - Len(cur)]
                  c == IF diff[i].op = "+" THEN "+" ELSE "-"
              IN HunkLoop(diff, i + 1,
                     [opened_ EXCEPT !.curRange = @ \o Prefixed(c, lines),
                                     !.newLine = IF c = "+" THEN @ + Len(lines) ELSE @,
                                     !.oldLine = IF c = "-" THEN @ + Len(lines) ELSE @])
         ELSE LET moved == [oldLine |-> st.oldLine + Len(lines), newLine |-> st.newLine + Len(lines)]
              IN IF st.oldRangeStart = 0
                 THEN HunkLoop(diff, i + 1, [st EXCEPT !.oldLine = moved.oldLine,
                                                       !.newLine = moved.newLine])
                 ELSE IF Len(lines) <= Context * 2 /\ i < Len(diff) - 1
                 THEN HunkLoop(diff, i + 1,
                          [st EXCEPT !.curRange = @ \o Prefixed(" ", lines),
                                     !.oldLine = moved.oldLine, !.newLine = moved.newLine])
                 ELSE LET contextSize == Min(Len(lines), Context)
                          hunk == [ oldStart |-> st.oldRangeStart,
                                    oldLines |-> st.oldLine - st.oldRangeStart + contextSize,
                                    newStart |-> st.newRangeStart,
                                    newLines |-> st.newLine - st.newRangeStart + contextSize,
                                    lines |-> st.curRange
                                              \o Prefixed(" ", SubSeq(lines, 1, contextSize)) ]
                      IN HunkLoop(diff, i + 1,
                             [st EXCEPT !.hunks = Append(@, hunk),
                                        !.oldRangeStart = 0, !.newRangeStart = 0,
                                        !.curRange = << >>,
                                        !.oldLine = moved.oldLine, !.newLine = moved.newLine])

NoNewlineMarker == << "\\", " No newline at end of file" >>

\* step 2 of structuredPatch: strip the line terminators; a line that has none
\* is followed by the marker line
RECURSIVE MarkMissingNewlines(_)
MarkMissingNewlines(lines) ==
    IF lines = << >> THEN << >>
    ELSE LET line == lines[1]
         IN IF line[Len(line)] = NL
            THEN << SubSeq(line, 1, Len(line) - 1) >> \o MarkMissingNewlines(Tail(lines))
            ELSE << line, NoNewlineMarker >> \o MarkMissingNewlines(Tail(lines))

\* structuredPatch for a given edit script
structuredPatch(oldFileName, newFileName, oldStr, newStr, oldHeader, newHeader, script) ==
    LET a == splitLines(oldStr)
        b == splitLines(newStr)
        diff == Append(Changes(script, a, b, 1, 1, 1), [op |-> "=", lines |-> << >>])
        raw == HunkLoop(diff, 1, [ hunks |-> << >>, oldRangeStart |-> 0, newRangeStart |-> 0,
                                   curRange |-> << >>, oldLine |-> 1, newLine |-> 1 ])
    IN [ oldFileName |-> oldFileName, newFileName |-> newFileName,
         oldHeader |-> oldHeader, newHeader |-> newHeader,
         hunks |-> [h \in 1..Len(raw) |->
                      [raw[h] EXCEPT !.lines = MarkMissingNewlines(@)]] ]

\* formatPatch: the lines of the patch text.  A header line is a tuple of its
\* fields, a hunk line the sequence of its characters.
RECURSIVE FormatHunks(_)
FormatHunks(hunks) ==
    IF hunks = << >> THEN << >>
    ELSE LET h == hunks[1]
             \* a range of no lines is written with the line before it
             oldStart == IF h.oldLines = 0 THEN h.oldStart - 1 ELSE h.oldStart
             newStart == IF h.newLines = 0 THEN h.newStart - 1 ELSE h.newStart
         IN << << "@@", oldStart, h.oldLines, newStart, h.newLines >> >>
            \o h.lines \o FormatHunks(Tail(hunks))

formatPatch(patch) ==
    (IF patch.oldFileName = patch.newFileName
     THEN << << "Index: ", patch.oldFileName >> >> ELSE << >>)
    \o << << "===" >>,
          << "---", patch.oldFileName, patch.oldHeader >>,
          << "+++", patch.newFileName, patch.newHeader >> >>
    \o FormatHunks(patch.hunks)

\* diffAnalyzer.ts generateUnifiedDiff, for the edit script the library chose
generateUnifiedDiff(oldText, newText, name, oldRef, newRef, script) ==
    formatPatch(structuredPatch("a/" \o name, "b/" \o name, oldText, newText,
                                oldRef, newRef, script))

\* parsePatch: the hunk lines that follow a hunk header
RECURSIVE HunkBody(_, _)
HunkBody(text, i) ==
    IF i > Len(text) \/ text[i][1] \notin { "+", "-", " ", "\\" } THEN << >>
    ELSE << text[i] >> \o HunkBody(text, i + 1)

\* parsePatch: the hunks from line i of the patch text on
RECURSIVE ParseHunks(_, _)
ParseHunks(text, i) ==
    IF i > Len(text) \/ text[i][1] # "@@" THEN << >>
    ELSE LET head == text[i]
             body == HunkBody(text, i + 1)
             hunk == [ oldStart |-> IF head[3] = 0 THEN head[2] + 1 ELSE head[2],
                       oldLines |-> head[3],
                       newStart |-> IF head[5] = 0 THEN head[4] + 1 ELSE head[4],
                       newLines |-> head[5],
                       lines |-> body ]
         IN << hunk >> \o ParseHunks(text, i + 1 + Len(body))

\* the number of patch lines a sequence of parsed hunks was read from
RECURSIVE PatchLinesOf(_)
PatchLinesOf(hunks) ==
    IF hunks = << >> THEN 0
    ELSE 1 + Len(hunks[1].lines) + PatchLinesOf(Tail(hunks))

\* parsePatch: the files of a patch text, from line i on
RECURSIVE parsePatch(_, _)
parsePatch(text, i) ==
    IF i > Len(text) THEN << >>
    ELSE IF text[i][1] # "---" THEN parsePatch(text, i + 1)
    ELSE LET hunks == ParseHunks(text, i + 2)
         IN << [ oldFileName |-> text[i][2], newFileName |-> text[i + 1][2], hunks |-> hunks ] >>
            \o parsePatch(text, i + 2 + PatchLinesOf(hunks))

\* the FileDiff of one parsed file, its hunks keeping only the tagged lines
FileDiff_WithoutMarkers(file, text) ==
    [ oldPath |-> file.oldFileName,
      newPath |-> file.newFileName,
      hunks |-> [h \in 1..Len(file.hunks) |->
                   [ oldStart |-> file.hunks[h].oldStart,
                     newStart |-> file.hunks[h].newStart,
                     lines |-> SelectSeq(file.hunks[h].lines,
                                         LAMBDA l : l[1] \in { "+", "-", " " }) ]],
      isNew |-> file.oldFileName = "/dev/null",
      isDeleted |-> file.newFileName = "/dev/null",
      unifiedDiff |-> text ]

\* diffAnalyzer.ts parseDiff: the FileDiff made of one parsed file
FileDiff(file, text) ==
    [ oldPath |-> file.oldFileName,
      newPath |-> file.newFileName,
      hunks |-> [h \in 1..Len(file.hunks) |->
                   [ oldStart |-> file.hunks[h].oldStart,
                     newStart |-> file.hunks[h].newStart,
                     lines |-> file.hunks[h].lines ]],
      isNew |-> file.oldFileName = "/dev/null",
      isDeleted |-> file.newFileName = "/dev/null",
      unifiedDiff |-> text ]

\* parseDiff dropping the files that have no hunk
parseDiff_SkipEmpty(text) ==
    LET files == SelectSeq(parsePatch(text, 1), LAMBDA file : file.hunks # << >>)
    IN [f \in 1..Len(files) |-> FileDiff(files[f], text)]

\* diffAnalyzer.ts parseDiff
parseDiff(text) ==
    LET files == parsePatch(text, 1)
    IN [f \in 1..Len(files) |-> FileDiff(files[f], text)]

\* mutant: the cursor does not move past an added line
RECURSIVE ChangedInHunk_CursorStays(_, _, _)
ChangedInHunk_CursorStays(lines, i, lineNo) ==
    IF i > Len(lines) THEN << >>
    ELSE IF lines[i][1] = "+"
         THEN << lineNo >> \o ChangedInHunk_CursorStays(lines, i + 1, lineNo)
    ELSE IF lines[i][1] # "-"
         THEN ChangedInHunk_CursorStays(lines, i + 1, lineNo + 1)
    ELSE ChangedInHunk_CursorStays(lines, i + 1, lineNo)
\* diffAnalyzer.ts getChangedLineNumbers: the loop over the lines of one hunk
RECURSIVE ChangedInHunk(_, _, _)
ChangedInHunk(lines, i, lineNo) ==
    IF i > Len(lines) THEN << >>
    ELSE IF lines[i][1] = "+"
         THEN << lineNo >> \o ChangedInHunk(lines, i + 1, lineNo + 1)
    ELSE IF lines[i][1] # "-"
         THEN ChangedInHunk(lines, i + 1, lineNo + 1)
    ELSE ChangedInHunk(lines, i + 1, lineNo)

\* diffAnalyzer.ts getChangedLineNumbers
RECURSIVE getChangedLineNumbers(_)
getChangedLineNumbers(hunks) ==
    IF hunks = << >> THEN << >>
    ELSE ChangedInHunk(hunks[1].lines, 1, hunks[1].newStart)
         \o getChangedLineNumbers(Tail(hunks))

InitDiff ==
    /\ \/ oldContent \in TextsUpTo(MaxTextLen) /\ newContent \in TextsUpTo(MaxTextLen)
       \/ oldContent \in TextsUpTo(MaxLongLen) /\ newContent \in OneEdit(oldContent)
       \/ \E x, y \in TextsUpTo(MaxEndLen) :
              \E x2 \in OneEdit(x), y2 \in OneEdit(y) :
                  oldContent = x \o Gap \o y /\ newContent = x2 \o Gap \o y2
    /\ filename \in Filenames
    /\ editScript = << >> /\ diffText = << >> /\ fileDiffs = << >>
    /\ changedLineNumbers = << >>
    /\ dpc = "texts"
    /\ refs = [site \in Sites |-> << >>]
    /\ changedLines = << >> /\ maxDepth = 0 /\ maxCharsPerFile = 0
    /\ stack = << >> /\ visited = {} /\ results = << >>
    /\ opened = << >> /\ resolved = << >> /\ faults = 0
    /\ status = "idle"
    /\ cancellation = NotCancelled
    /\ tracking = NotTracking
    /\ pending = NotPending
    /\ UnitsIdle

\* a call of generateUnifiedDiff on the two texts
GenerateUnifiedDiff ==
    /\ dpc = "texts"
    /\ \E script \in EditScripts(splitLines(oldContent), splitLines(newContent), 1, 1) :
           /\ editScript' = script
           /\ diffText' = generateUnifiedDiff(oldContent, newContent, filename,
                                              "base", "branch", script)
    /\ dpc' = "rendered"
    /\ UNCHANGED << gatherVars, unitVars, oldContent, newContent, filename, fileDiffs, changedLineNumbers >>

\* a call of parseDiff on the patch text
ParseDiff ==
    /\ dpc = "rendered"
    /\ fileDiffs' = parseDiff(diffText)
    /\ dpc' = "parsed"
    /\ UNCHANGED << gatherVars, unitVars, oldContent, newContent, filename, editScript, diffText,
                    changedLineNumbers >>

\* a call of getChangedLineNumbers on the file diff of the patch
GetChangedLineNumbers ==
    /\ dpc = "parsed"
    /\ fileDiffs # << >>
    /\ changedLineNumbers' = getChangedLineNumbers(fileDiffs[1].hunks)
    /\ dpc' = "extracted"
    /\ UNCHANGED << gatherVars, unitVars, oldContent, newContent, filename, editScript, diffText,
                    fileDiffs >>

NextDiff == GenerateUnifiedDiff \/ ParseDiff \/ GetChangedLineNumbers

SpecDiff == InitDiff /\ [][NextDiff]_vars

(***************************************************************************)
(* runDefinitionTracking (extension.ts): the collector is called once for  *)
(* every changed file, one call after the other.                           *)
(***************************************************************************)
\* a FileDiff of the list, as far as runDefinitionTracking reads it, and
\* whether fileContents has the file
ChangedFile(file, newStart, lines, hasContent) ==
    [ newPath |-> << "b/", file >>,
      hunks |-> << [ oldStart |-> newStart, newStart |-> newStart, lines |-> lines ] >>,
      hasContent |-> hasContent ]

AddedLine == << "+", "a" >>
ContextLine == << " ", "a" >>

\* lists of changed files: X with its two lines added, Y with lines 1 and 3
\* added, X with a hunk that starts at line 0, and a file without content
FileDiffLists ==
    LET fdX == ChangedFile("X", 1, << AddedLine, AddedLine >>, TRUE)
        fdY == ChangedFile("Y", 1, << AddedLine, ContextLine, AddedLine >>, TRUE)
        fdX0 == ChangedFile("X", 0, << AddedLine, AddedLine >>, TRUE)
        fdZ == ChangedFile("Z", 1, << AddedLine >>, FALSE)
    IN { << fdX, fdY, fdX >>, << fdY, fdX, fdY >>, << fdX0, fdX >>, << fdZ, fdY >> }

Tracking == tracking.pc \in { "loop", "traversal" }
InLoop == tracking.pc = "loop" /\ tracking.fd <= Len(tracking.files)
CurrentFile == tracking.files[tracking.fd]

\* line 839: fd.newPath.replace(/^b\//, '')
FilePath(fd) == IF fd.newPath[1] = "b/" THEN fd.newPath[2] ELSE fd.newPath[1] \o fd.newPath[2]

\* what runDefinitionTracking did with one file of the list
Outcome(fd, kind, clean, defs) ==
    [ file |-> FilePath(fd), hunks |-> fd.hunks, kind |-> kind, clean |-> clean, defs |-> defs ]

InitTrack ==
    /\ refs \in { r \in [Sites -> Answers] : \A site \in Sites : r[site] \in AnswersAt(site) }
    /\ refs[<< "X", 1, 0 >>] = << >>
    /\ maxDepth \in { 0, 2 }
    /\ maxCharsPerFile = 20
    /\ tracking \in { [ NotTracking EXCEPT !.pc = "start", !.files = l ] : l \in FileDiffLists }
    /\ changedLines = << >>
    /\ stack = << >> /\ visited = {} /\ results = << >>
    /\ opened = << >> /\ resolved = << >> /\ faults = 0
    /\ status = "idle"
    /\ cancellation = NotCancelled
    /\ pending = NotPending
    /\ DiffIdle
    /\ UnitsIdle

\* mutant: the visited set is one set for all calls
Call_SharedVisited(fileUri, lines) ==
    [ changedLines |-> lines, stack |-> << Frame(fileUri, lines, 0) >>,
      visited |-> visited, results |-> << >>,
      opened |-> << >>, resolved |-> << >>, status |-> "running" ]
\* definitionTracker.ts lines 17-28: a call of gatherDefinitionsForChangedLines
\* makes its own visited set and result list and enters gatherRecursive at depth 0
Call(fileUri, lines) ==
    [ changedLines |-> lines, stack |-> << Frame(fileUri, lines, 0) >>,
      visited |-> {}, results |-> << >>,
      opened |-> << >>, resolved |-> << >>, status |-> "running" ]

\* the state of the call that is running
Current ==
    [ changedLines |-> changedLines, stack |-> stack, visited |-> visited, results |-> results,
      opened |-> opened, resolved |-> resolved, status |-> status ]

\* the event loop goes on with call c
Resume(c) ==
    /\ changedLines' = c.changedLines
    /\ stack' = c.stack
    /\ visited' = c.visited
    /\ results' = c.results
    /\ opened' = c.opened
    /\ resolved' = c.resolved
    /\ status' = c.status

TrackFrame == << refs, maxDepth, maxCharsPerFile, cancellation, pending, diffVars, unitVars >>
Traversal == << changedLines, stack, visited, results, opened, resolved, status >>

\* line 836: definitionDepth is 0, nothing is tracked
TrackingOff ==
    /\ tracking.pc = "start" /\ maxDepth = 0
    /\ tracking' = [tracking EXCEPT !.pc = "returned"]
    /\ UNCHANGED << TrackFrame, Traversal, faults >>

\* lines 836-838
EnterLoop ==
    /\ tracking.pc = "start" /\ maxDepth # 0
    /\ tracking' = [tracking EXCEPT !.pc = "loop"]
    /\ UNCHANGED << TrackFrame, Traversal, faults >>

\* line 840: if (!fileContents.has(filePath)) { continue; }
SkipWithoutContent ==
    /\ InLoop /\ ~CurrentFile.hasContent
    /\ tracking' = [tracking EXCEPT !.fd = @ + 1,
                       !.outcomes = Append(@, Outcome(CurrentFile, "skipped", TRUE, << >>))]
    /\ UNCHANGED << TrackFrame, Traversal, faults >>

\* lines 844, 850-852: fs.stat rejects, the file is skipped
StatFails ==
    /\ InLoop /\ CurrentFile.hasContent
    /\ faults < MaxFaults
    /\ faults' = faults + 1
    /\ tracking' = [tracking EXCEPT !.fd = @ + 1,
                       !.outcomes = Append(@, Outcome(CurrentFile, "failed", FALSE, << >>))]
    /\ UNCHANGED << TrackFrame, Traversal >>

\* lines 844-847: stat succeeded, gatherDefinitionsForChangedLines is called
\* with the added lines of the file's hunks
StartTraversal ==
    /\ InLoop /\ CurrentFile.hasContent
    /\ Resume(Call(FilePath(CurrentFile), getChangedLineNumbers(CurrentFile.hunks)))
    /\ tracking' = [tracking EXCEPT !.pc = "traversal", !.faultsBefore = faults]
    /\ UNCHANGED << TrackFrame, faults >>

\* line 849: allDefinitions.push(...defs)
TraversalReturns ==
    /\ tracking.pc = "traversal" /\ status = "returned"
    /\ tracking' = [tracking EXCEPT
                       !.pc = "loop", !.fd = @ + 1,
                       !.allDefinitions = @ \o results,
                       !.outcomes = Append(@, Outcome(CurrentFile, "collected",
                                                      faults = tracking.faultsBefore, results))]
    /\ status' = "idle"
    /\ UNCHANGED << TrackFrame, changedLines, stack, visited, results, opened, resolved, faults >>

\* mutant: the rejection of the call is not caught, runDefinitionTracking rejects
TraversalRejects_Uncaught ==
    /\ tracking.pc = "traversal" /\ status = "rejected"
    /\ tracking' = [tracking EXCEPT !.pc = "rejected", !.allDefinitions = << >>]
    /\ status' = "idle"
    /\ UNCHANGED << TrackFrame, changedLines, stack, visited, results, opened, resolved, faults >>
\* lines 850-852: the call rejected, the file is skipped
TraversalRejects ==
    /\ tracking.pc = "traversal" /\ status = "rejected"
    /\ tracking' = [tracking EXCEPT
                       !.pc = "loop", !.fd = @ + 1,
                       !.outcomes = Append(@, Outcome(CurrentFile, "failed", FALSE, << >>))]
    /\ status' = "idle"
    /\ UNCHANGED << TrackFrame, changedLines, stack, visited, results, opened, resolved, faults >>

\* line 854: return allDefinitions
ReturnAllDefinitions ==
    /\ tracking.pc = "loop" /\ tracking.fd > Len(tracking.files)
    /\ tracking' = [tracking EXCEPT !.pc = "returned"]
    /\ UNCHANGED << TrackFrame, Traversal, faults >>

NextTrack ==
    \/ TrackingOff
    \/ EnterLoop
    \/ SkipWithoutContent
    \/ StatFails
    \/ StartTraversal
    \/ NextGather
    \/ TraversalReturns
    \/ TraversalRejects
    \/ ReturnAllDefinitions

SpecTrack == InitTrack /\ [][NextTrack]_vars

(***************************************************************************)
(* Two calls of gatherDefinitionsForChangedLines at a time.  The function  *)
(* is async: at each await (lines 45, 72, 97 and 116) it gives control     *)
(* back, and the event loop may go on with another pending call.  The      *)
(* first call of a pair runs alone; then it is made again together with a  *)
(* call for another file, and the two are resumed in any order.            *)
(***************************************************************************)
CallX == [ fileUri |-> "X", lines |-> << 1, 2 >> ]
CallX0 == [ fileUri |-> "X", lines |-> << 0, 1 >> ]
CallY == [ fileUri |-> "Y", lines |-> << 1, 3 >> ]
CallPairs == { << CallX, CallY >>, << CallY, CallX >>, << CallX0, CallY >> }

Alone == pending.phase = "alone"
Concurrent == pending.phase = "concurrent"

InitInterleave ==
    /\ refs \in { r \in [Sites -> Answers] : \A site \in Sites : r[site] \in AnswersAt(site) }
    /\ refs[<< "X", 1, 0 >>] = << >>
    /\ maxDepth = 2
    /\ maxCharsPerFile = 20
    /\ pending \in { [ phase |-> "alone", calls |-> pair ] : pair \in CallPairs }
    /\ changedLines = pending.calls[1].lines
    /\ stack = << Frame(pending.calls[1].fileUri, changedLines, 0) >>
    /\ visited = {} /\ results = << >>
    /\ opened = << >> /\ resolved = << >> /\ faults = 0
    /\ status = "running"
    /\ cancellation = NotCancelled
    /\ tracking = NotTracking
    /\ DiffIdle
    /\ UnitsIdle

InterleaveFrame == << refs, maxDepth, maxCharsPerFile, cancellation, tracking, diffVars, unitVars,
                     faults >>

\* the call that ran alone is settled and none of its external calls failed;
\* the same call is made again, and a call for the other file of the pair is
\* made before the first one goes on
CallBoth ==
    /\ Alone /\ status \in { "returned", "rejected" }
    /\ faults = 0
    /\ pending' = [ phase |-> "concurrent", calls |-> pending.calls,
                    alone |-> [ status |-> status, results |-> results ],
                    current |-> 1,
                    parked |-> Call(pending.calls[2].fileUri, pending.calls[2].lines) ]
    /\ Resume(Call(pending.calls[1].fileUri, pending.calls[1].lines))
    /\ UNCHANGED InterleaveFrame

\* the running call waits at an await and the event loop resumes the other one
\* (every step boundary is taken as a point where the call may wait, which
\* allows at least the orders the event loop can produce)
Switch ==
    /\ Concurrent
    /\ pending.parked.status = "running"
    /\ pending' = [pending EXCEPT !.current = 3 - @, !.parked = Current]
    /\ Resume(pending.parked)
    /\ UNCHANGED InterleaveFrame

NextInterleave ==
    \/ NextGather
    \/ CallBoth
    \/ Switch

SpecInterleave == InitInterleave /\ [][NextInterleave]_vars

(***************************************************************************)
(* Properties of the definition collector.                                 *)
(***************************************************************************)
Settled == status # "running"
Returned == status = "returned"

DefinitionFiles == [i \in 1..Len(results) |-> results[i].definitionFile]
OriginFiles == [i \in 1..Len(results) |-> results[i].originFile]

IsPrefix(s, t) == Len(s) <= Len(t) /\ SubSeq(t, 1, Len(s)) = s

\* the sites of a document line (0-based), and the lines of a block that refer to a file
SitesOfLine(uri, line) == { site \in Sites : site[1] = uri /\ site[2] = line }
RefersTo(site, uri) == \E j \in 1..Len(refs[site]) : refs[site][j].uri = uri
LinesReferring(from, to) == { site[2] + 1 : site \in { x \in Sites : x[1] = from /\ RefersTo(x, to) } }

\* the block the collector extracts for baz, the definition in Y
BlockOfY == extractDefinitionBlock(TextDocument("Y"), 0, maxCharsPerFile)
SampledLinesOfY == { BlockOfY.startLine, (BlockOfY.startLine + BlockOfY.endLine) \div 2 }

\* X's first changed line refers to baz in Y, and nothing in X refers elsewhere
XRefersToY ==
    /\ changedLines = << 1, 2 >>
    /\ refs[<< "X", 0, 0 >>] = << Location("Y", 0) >>
    /\ \A site \in SitesOfLine("X", 0) \cup SitesOfLine("X", 1) :
           refs[site] \in { << >>, << Location("Y", 0) >> }

\* X -> Y and Y -> X: the start line of baz's block refers back to X
MutualReference ==
    /\ XRefersToY
    /\ refs[<< "Y", 0, 9 >>] = << Location("X", 0) >>
    /\ maxDepth = 5

\* C1 as stated: the mutual reference X -> Y, Y -> X with maxDepth = 5 ends
\* with exactly one DefinitionContext, the one for Y's block.
C1_OneRecordForCycle ==
    (Returned /\ faults = 0 /\ MutualReference) => DefinitionFiles = << "Y" >>

\* C1 amended: with the mutual reference X -> Y, Y -> X and maxDepth = 5 the
\* traversal never nests more than three calls (X, Y, and the call on X that
\* the visited set ends at once), and when no external call failed it returns
\* exactly two records in discovery order: Y's block found from X, then X's
\* block found from Y; the lines of X are probed once only.
C1_CycleYieldsTwoRecords ==
    MutualReference =>
        /\ Len(stack) <= 3
        /\ Len(SelectSeq(resolved, LAMBDA c : c.uri = "X")) <= 3
        /\ (Returned /\ faults = 0) => /\ DefinitionFiles = << "Y", "X" >>
                                       /\ OriginFiles = << "X", "Y" >>

C1_Witness ==
    Returned /\ faults = 0 /\ MutualReference /\ Len(results) = 2

\* X -> Y -> Z: the only reference to Z sits on line l of Y (1-based)
ChainVia(l) ==
    /\ XRefersToY
    /\ LinesReferring("Y", "Z") = { l }
    /\ LinesReferring("Y", "X") = {}
    /\ l >= BlockOfY.startLine /\ l <= BlockOfY.endLine

\* C2 as stated: for the chain X -> Y -> Z, maxDepth = 1 returns [Y] and
\* maxDepth = 2 returns [Y, Z], wherever in Y's block the reference to Z sits.
C2_ChainAnyLine ==
    \A l \in 1..lineCount(TextDocument("Y")) :
        (Returned /\ faults = 0 /\ ChainVia(l)) =>
            /\ maxDepth = 1 => DefinitionFiles = << "Y" >>
            /\ maxDepth = 2 => DefinitionFiles = << "Y", "Z" >>

\* C2 amended: for the chain X -> Y -> Z, maxDepth = 1 returns exactly [Y];
\* maxDepth = 2 returns exactly [Y, Z] when the reference to Z sits on the
\* start line or the midpoint line of Y's block, and exactly [Y] when it sits
\* on any other line of the block.
C2_ChainSampledLines ==
    \A l \in 1..lineCount(TextDocument("Y")) :
        (Returned /\ faults = 0 /\ ChainVia(l)) =>
            /\ maxDepth = 1 => DefinitionFiles = << "Y" >>
            /\ maxDepth = 2 =>
                   DefinitionFiles = IF l \in SampledLinesOfY THEN << "Y", "Z" >> ELSE << "Y" >>

C2_Witness ==
    /\ Returned /\ faults = 0 /\ maxDepth = 2
    /\ ChainVia(1)
    /\ DefinitionFiles = << "Y", "Z" >>

\* C3: a call of gatherRecursive with currentDepth >= maxDepth returns at once
\* and opens no document, asks the resolver nothing and leaves visited and
\* results as they are; with maxDepth = 0 the collector returns the empty list.
C3_DepthGate ==
    /\ [][ (Running /\ Top.pc = "enter" /\ Top.currentDepth >= maxDepth) =>
               /\ stack' = Pop
               /\ opened' = opened /\ resolved' = resolved
               /\ visited' = visited /\ results' = results ]_vars
    /\ [](maxDepth = 0 => /\ results = << >> /\ opened = << >> /\ resolved = << >>
                          /\ status # "rejected")

C3_Witness ==
    /\ Returned /\ maxDepth = 0 /\ results = << >>
    /\ refs[<< "X", 0, 0 >>] # << >>

\* C4: when two seed lines of X, or two identifiers of one line, resolve to
\* the same definition location in Y, the result holds exactly one record
\* for that location.
SameDefinitionTwice ==
    /\ changedLines = << 1, 2 >>
    /\ refs[<< "X", 0, 0 >>] = << Location("Y", 0) >>
    /\ \/ refs[<< "X", 1, 0 >>] = << Location("Y", 0) >>
       \/ refs[<< "X", 0, 7 >>] = << Location("Y", 0) >>
    /\ \A site \in Sites : \A j \in 1..Len(refs[site]) : refs[site][j] # Location("Y", 1)

RecordsOfBaz == SelectSeq(results, LAMBDA d : d.definitionFile = "Y" /\ d.startLine = 1)

C4_Dedup ==
    (Returned /\ faults = 0 /\ maxDepth >= 1 /\ SameDefinitionTwice) =>
        /\ Len(RecordsOfBaz) = 1
        /\ results[1] = RecordsOfBaz[1]

C4_Witness ==
    /\ Returned /\ faults = 0 /\ SameDefinitionTwice
    /\ refs[<< "X", 1, 0 >>] = << Location("Y", 0) >>
    /\ refs[<< "X", 0, 7 >>] = << Location("Y", 0) >>
    /\ Len(resolved) >= 3 /\ Len(RecordsOfBaz) = 1

\* The keys the visited set can hold in this workspace.
AllKeys ==
    { FileKey(f) : f \in Files }
    \cup UNION { { ProbeKey(site[1], l, site[3]) : l \in 0..(lineCount(TextDocument(site[1])) + 1) } :
                 site \in Sites }
    \cup UNION { { DefKey(f, i) : i \in 0..(lineCount(TextDocument(f)) - 1) } : f \in Files }

\* steps a frame has left when every key it meets is already visited
RECURSIVE LinesLeft(_, _)
LinesLeft(frame, l) ==
    IF l > Len(frame.targetLines) THEN 0
    ELSE LET idx == Min(frame.targetLines[l] - 1, lineCount(TextDocument(frame.fileUri)) - 1)
             n == IF idx < 0 THEN 0
                  ELSE Len(extractIdentifiers(lineAt(TextDocument(frame.fileUri), idx)))
         IN n + 1 + LinesLeft(frame, l + 1)

StepsLeft(frame) ==
    CASE frame.pc = "enter" -> 1
      [] frame.pc = "lines" -> LinesLeft(frame, frame.li) - (frame.ii - 1) + 1
      [] frame.pc = "locs"  -> (Len(frame.locations) - frame.k + 1) + 1
                               + LinesLeft(frame, frame.li) - frame.ii + 1

RECURSIVE SumStepsLeft(_)
SumStepsLeft(frames) ==
    IF frames = << >> THEN 0
    ELSE StepsLeft(frames[1]) + SumStepsLeft(SubSeq(frames, 2, Len(frames)))

\* a new key pays for the steps it can add: the locations of one answer, or the
\* line loop of one new frame
KeyWeight == 2 * Cardinality(Sites) + 4

Measure == KeyWeight * Cardinality(AllKeys \ visited) + SumStepsLeft(stack)

\* C5: every traversal settles, whatever the reference graph (self reference,
\* cycles), the seed lines and maxDepth are, given that every external call
\* returns or fails: each step of the traversal lowers a measure that is a
\* natural number, and a traversal that has not settled can take a step.
C5_Terminates ==
    /\ [][Measure' < Measure]_vars
    /\ [](Measure \in Nat /\ visited \subseteq AllKeys)
    /\ [](Settled \/ NewDefinition \/ ENABLED << LocalStep >>_vars)
    /\ [](Settled <=> stack = << >>)

C5_Witness ==
    /\ Returned /\ maxDepth = 5 /\ Len(results) = 3
    /\ refs[<< "Y", 0, 9 >>] = << Location("Y", 0) >>

\* C10: a probe whose resolution throws or yields no location, and a
\* definition file that cannot be opened, add no record and end nothing: the
\* same call goes on with the next identifier or location, records made before
\* stay, and a traversal that returns has probed every identifier of every seed
\* line and handled every location of every answer.
ProbeGaveNothing ==
    /\ Running /\ Top.pc = "lines"
    /\ Len(resolved') = Len(resolved) + 1
    /\ LET call == resolved'[Len(resolved')]
       IN call.threw \/ executeDefinitionProvider(call.uri, call.line, call.col) = << >>

DefinitionUnreadable ==
    Running /\ Top.pc = "locs" /\ faults' = faults + 1

AllSeedsProbed ==
    \A i \in 1..Len(changedLines) :
        LET idx == Min(changedLines[i] - 1, lineCount(TextDocument(OriginFile)) - 1)
            ids == extractIdentifiers(lineAt(TextDocument(OriginFile), idx))
        IN \A j \in 1..Len(ids) : ProbeKey(OriginFile, changedLines[i], ids[j].col) \in visited

AllLocationsHandled ==
    \A i \in 1..Len(resolved) :
        LET call == resolved[i]
            defs == executeDefinitionProvider(call.uri, call.line, call.col)
        IN ~call.threw =>
               \A j \in 1..Len(defs) :
                   defs[j].uri # call.uri => DefKey(defs[j].uri, defs[j].line) \in visited

C10_ProbeFailureNonFatal ==
    /\ [][ ProbeGaveNothing =>
               /\ results' = results /\ status' = "running"
               /\ stack' = ReplaceTop([Top EXCEPT !.ii = @ + 1]) ]_vars
    /\ [][ DefinitionUnreadable =>
               /\ results' = results /\ status' = "running"
               /\ stack' = ReplaceTop([Top EXCEPT !.k = @ + 1]) ]_vars
    /\ [][ IsPrefix(results, results') ]_vars
    /\ []( (Returned /\ FileKey(OriginFile) \in visited) =>
               AllSeedsProbed /\ AllLocationsHandled )

\* the first probe threw, and a later probe still produced a record
C10_Witness ==
    /\ Returned /\ faults = 1
    /\ resolved # << >> /\ resolved[1].threw
    /\ results # << >>


\* C11: a seed line with no line in the origin file (<= 0 or above the line
\* count) gives no result for that line: the traversal does not reject, and a
\* traversal that got into the origin file returns with every identifier of the
\* seed lines that exist probed.
SeedInRange(l) == l >= 1 /\ l <= lineCount(TextDocument(OriginFile))

InRangeSeedsProbed ==
    \A i \in 1..Len(changedLines) :
        SeedInRange(changedLines[i]) =>
            LET ids == extractIdentifiers(lineAt(TextDocument(OriginFile), changedLines[i] - 1))
            IN \A j \in 1..Len(ids) : ProbeKey(OriginFile, changedLines[i], ids[j].col) \in visited

C11_OutOfRangeNonFatal ==
    /\ status # "rejected"
    /\ (Settled /\ FileKey(OriginFile) \in visited) => InRangeSeedsProbed

\* number of entries of a log that are equal to e
Count(log, e) == Cardinality({ i \in 1..Len(log) : log[i] = e })

\* C13: within one traversal openTextDocument is called at most once for each
\* file.
C13_FileOpenedOnce ==
    \A f \in Files : Count(opened, f) <= 1

\* C14: within one traversal the definition provider is asked at most once
\* about each (file, line, column), also when a seed list holds the same line
\* twice.
Asked(call) == << call.uri, call.line, call.col >>

C14_ProbeDedup ==
    \A i, j \in 1..Len(resolved) : Asked(resolved[i]) = Asked(resolved[j]) => i = j

\* the block of baz is cut short by the budget, its start line is its midpoint
\* line, and the call on Y went through the seed list << 1, 1 >>
C14_Witness ==
    /\ Returned
    /\ NextLines(BlockOfY) = << 1, 1 >>
    /\ ProbeKey("Y", 1, 9) \in visited
    /\ Count([i \in 1..Len(resolved) |-> Asked(resolved[i])], << "Y", 0, 9 >>) = 1

\* C15: a location in the file that holds the reference is discarded: no
\* record of the result has its definitionFile equal to its originFile.
C15_NoSelfReference ==
    \A i \in 1..Len(results) : results[i].definitionFile # results[i].originFile

\* foo resolves into X itself, bar into Y
C15_Witness ==
    /\ Returned
    /\ changedLines = << 1, 2 >>
    /\ refs[<< "X", 0, 0 >>] = << Location("X", 0) >>
    /\ refs[<< "X", 0, 7 >>] = << Location("Y", 0) >>
    /\ Len(resolved) >= 2
    /\ DefinitionFiles = << "Y" >>

\* C16: no two records of the result have the same definitionFile and the
\* same startLine (the start of the extracted block).
C16_UniqueBlockStart ==
    \A i, j \in 1..Len(results) :
        (/\ results[i].definitionFile = results[j].definitionFile
         /\ results[i].startLine = results[j].startLine) => i = j

\* the text of the block of a record, before it is cut to the budget
BlockTextLength(d) ==
    TextLength(TextDocument(d.definitionFile), d.startLine - 1, d.endLine - 1)

\* C17: every recorded definitionContent is at most maxCharsPerFile long, and
\* exactly that long when the text of the block is longer; the call on the
\* defining file is seeded with the start line and the midpoint line of the
\* block as the scan found it.
C17_Truncation ==
    /\ [](\A i \in 1..Len(results) :
              /\ results[i].definitionContent.length <= maxCharsPerFile
              /\ BlockTextLength(results[i]) > maxCharsPerFile =>
                     results[i].definitionContent.length = maxCharsPerFile
              /\ BlockTextLength(results[i]) <= maxCharsPerFile =>
                     results[i].definitionContent.length = BlockTextLength(results[i]))
    /\ [][ Len(results') > Len(results) =>
               LET d == results'[Len(results')]
               IN /\ Len(stack') = Len(stack) + 1
                  /\ stack'[Len(stack')].fileUri = d.definitionFile
                  /\ stack'[Len(stack')].targetLines
                         = << d.startLine, (d.startLine + d.endLine) \div 2 >> ]_vars

\* the block of baz in Y is 30 characters long against a budget of 20
C17_Witness ==
    /\ Returned
    /\ maxCharsPerFile = 20
    /\ \E i \in 1..Len(results) :
           /\ results[i].definitionFile = "Y"
           /\ BlockTextLength(results[i]) = 30
           /\ results[i].definitionContent.length = 20
           /\ results[i].endLine = 2

\* where a call stands in its loops: seed line, identifier, location
LoopPosition(frame) ==
    << frame.li, frame.ii, IF frame.pc = "locs" THEN frame.k ELSE 0 >>

LexLess(a, b) ==
    \/ a[1] < b[1]
    \/ a[1] = b[1] /\ a[2] < b[2]
    \/ a[1] = b[1] /\ a[2] = b[2] /\ a[3] < b[3]

\* the records by symbol, origin and definition file
Discovery == [i \in 1..Len(results) |->
                 << results[i].symbolName, results[i].originFile, results[i].definitionFile >>]

\* foo on line 1 of X resolves to Y and Z, baz in Y resolves back into X, and
\* bar on line 1 of X resolves to Y again
OrderScenario ==
    /\ changedLines = << 1, 2 >> /\ maxDepth = 5
    /\ refs[<< "X", 0, 0 >>] = << Location("Y", 1), Location("Z", 0) >>
    /\ refs[<< "X", 0, 7 >>] = << Location("Y", 0) >>
    /\ refs[<< "X", 1, 0 >>] = << >>
    /\ refs[<< "Y", 0, 9 >>] = << Location("X", 0) >>

\* C18: the result is in the order of discovery of a depth-first walk: a record
\* is added at the end, for the location the innermost call stands at; a call
\* moves through its seed lines, identifiers and locations forwards only; and
\* the callers stand still while the call on a definition file runs, so the
\* records of that call come after the definition's record and before the
\* caller's next one.
C18_DiscoveryOrder ==
    /\ [][ results' # results =>
               /\ AtLoc
               /\ results' = Append(results, results'[Len(results')])
               /\ results'[Len(results')].symbolName = CurIdent.name
               /\ results'[Len(results')].originFile = Top.fileUri
               /\ results'[Len(results')].definitionFile = Loc.uri
               /\ Len(stack') = Len(stack) + 1 ]_vars
    /\ [][ Running =>
               /\ \A i \in 1..(Len(stack) - 1) : i <= Len(stack') => stack'[i] = stack[i]
               /\ Len(stack') >= Len(stack) =>
                      \/ Top.pc = "enter" /\ stack'[Len(stack)].pc = "lines"
                      \/ LexLess(LoopPosition(Top), LoopPosition(stack'[Len(stack)])) ]_vars
    /\ []( (Returned /\ faults = 0 /\ OrderScenario) =>
               Discovery = << << "foo", "X", "Y" >>, << "baz", "Y", "X" >>,
                              << "foo", "X", "Z" >>, << "bar", "X", "Y" >> >> )

C18_Witness ==
    Returned /\ faults = 0 /\ OrderScenario /\ Len(results) = 4

\* C12: once cancellation is requested, the collector finishes at most the
\* probe in progress: it asks the resolver at most once more and opens no
\* document beyond those of that probe's locations, then returns the records
\* it has.
C12_CancellationStopsCalls ==
    (cancellation.isCancellationRequested /\ status # "rejected") =>
        /\ Len(resolved) <= cancellation.resolved + 1
        /\ Len(opened) <= cancellation.opened + 2
        /\ Settled => Returned

(***************************************************************************)
(* Properties of runDefinitionTracking.                                    *)
(***************************************************************************)
TrackingReturned == tracking.pc = "returned"

\* the definitions of the files that were collected, in the order of the list
RECURSIVE Collected(_)
Collected(outcomes) ==
    IF outcomes = << >> THEN << >>
    ELSE (IF outcomes[1].kind = "collected" THEN outcomes[1].defs ELSE << >>)
         \o Collected(Tail(outcomes))

\* C19: a changed file whose lookup or traversal fails is skipped and the loop
\* goes on: runDefinitionTracking never rejects, handles every file of the
\* list, and returns the definitions collected for all the other files.
C19_OneFailureDoesNotAbort ==
    /\ tracking.pc \in { "start", "loop", "traversal", "returned" }
    /\ Len(tracking.outcomes) = tracking.fd - 1
    /\ tracking.allDefinitions = Collected(tracking.outcomes)
    /\ (TrackingReturned /\ maxDepth # 0) => Len(tracking.outcomes) = Len(tracking.files)
    /\ (tracking.pc = "traversal" /\ Settled) => ENABLED (TraversalReturns \/ TraversalRejects)

\* the traversal of the first file rejected, the second file was collected
C19_Witness ==
    /\ TrackingReturned
    /\ Len(tracking.outcomes) = 2
    /\ tracking.outcomes[1].kind = "failed"
    /\ tracking.outcomes[1].hunks[1].newStart = 0
    /\ faults = 0
    /\ tracking.outcomes[2].kind = "collected"
    /\ tracking.allDefinitions # << >>

\* the state of call i of the two calls that are pending together
CallState(i) == IF pending.current = i THEN Current ELSE pending.parked

\* C20: every call of gatherDefinitionsForChangedLines has its own visited set
\* and result list: with no failing external call, a call that is made after
\* the same call ran alone, and that is resumed in any order with a call for
\* another file, builds the same result list as the call that ran alone and
\* settles as it did, so that every definition the first call reported is
\* reported again.
C20_TraversalIndependence ==
    (Concurrent /\ faults = 0) =>
        /\ IsPrefix(CallState(1).results, pending.alone.results)
        /\ CallState(1).status \in { "returned", "rejected" } =>
               /\ CallState(1).status = pending.alone.status
               /\ CallState(1).results = pending.alone.results

\* the second making of the call has returned the definitions it returned when
\* alone, while the call for the other file, which has already opened its file
\* and recorded a definition, is still waiting
C20_Witness ==
    /\ Concurrent /\ faults = 0
    /\ pending.current = 1
    /\ status = "returned"
    /\ results # << >>
    /\ results = pending.alone.results
    /\ pending.parked.status = "running"
    /\ pending.parked.results # << >>

(***************************************************************************)
(* Properties of the diff engine.                                          *)
(***************************************************************************)
Parsed == dpc \in { "parsed", "extracted" }
Extracted == dpc = "extracted"

\* the positions in the new text of the lines the edit script adds
RECURSIVE AddedPositions(_, _, _)
AddedPositions(script, k, n) ==
    IF k > Len(script) THEN << >>
    ELSE IF script[k] = "+" THEN << n >> \o AddedPositions(script, k + 1, n + 1)
    ELSE IF script[k] = "=" THEN AddedPositions(script, k + 1, n + 1)
    ELSE AddedPositions(script, k + 1, n)

HasMarker == \E h \in 1..Len(fileDiffs[1].hunks) :
                 \E l \in 1..Len(fileDiffs[1].hunks[h].lines) :
                     fileDiffs[1].hunks[h].lines[l] = NoNewlineMarker

\* C6: for every pair of texts, with or without a trailing newline, the list
\* getChangedLineNumbers returns for the parsed diff is exactly the list of the
\* positions in the new text of the added lines.
C6_ChangedLinesAreAddedPositions ==
    Extracted => changedLineNumbers = AddedPositions(editScript, 1, 1)

\* C7: the parsed diff is exactly one FileDiff, whose isNew holds exactly when
\* the old text is empty and whose isDeleted holds exactly when the new text is
\* empty.
C7_FlagsMatchEmptiness ==
    Parsed => /\ Len(fileDiffs) = 1
              /\ fileDiffs[1].isNew <=> (oldContent = << >>)
              /\ fileDiffs[1].isDeleted <=> (newContent = << >>)

\* the lines of one side of a hunk as lines of text: the lines tagged otherTag
\* belong to the other side; the marker line is a line of its own when
\* markerIsLine, and otherwise is left out; every line ends with a terminator,
\* but the line the marker follows when markerMarks
RECURSIVE SideOf(_, _, _, _, _)
SideOf(lines, i, otherTag, markerIsLine, markerMarks) ==
    IF i > Len(lines) THEN << >>
    ELSE IF lines[i][1] = otherTag \/ (lines[i][1] = "\\" /\ ~markerIsLine)
    THEN SideOf(lines, i + 1, otherTag, markerIsLine, markerMarks)
    ELSE << Tail(lines[i])
            \o (IF markerMarks /\ i < Len(lines) /\ lines[i + 1] = NoNewlineMarker
                THEN << >> ELSE << NL >>) >>
         \o SideOf(lines, i + 1, otherTag, markerIsLine, markerMarks)

OldSide(hunk, markerIsLine, markerMarks) == SideOf(hunk.lines, 1, "+", markerIsLine, markerMarks)
NewSide(hunk, markerIsLine, markerMarks) == SideOf(hunk.lines, 1, "-", markerIsLine, markerMarks)

\* the line numbers of the old (or new) text the hunks cover
RECURSIVE Covered(_, _, _, _)
Covered(hunks, old, markerIsLine, markerMarks) ==
    IF hunks = << >> THEN {}
    ELSE LET start == IF old THEN hunks[1].oldStart ELSE hunks[1].newStart
             side == IF old THEN OldSide(hunks[1], markerIsLine, markerMarks)
                     ELSE NewSide(hunks[1], markerIsLine, markerMarks)
         IN (start .. (start + Len(side) - 1))
            \cup Covered(Tail(hunks), old, markerIsLine, markerMarks)

RECURSIVE Outside(_, _, _)
Outside(lines, covered, i) ==
    IF i > Len(lines) THEN << >>
    ELSE (IF i \in covered THEN << >> ELSE << lines[i] >>) \o Outside(lines, covered, i + 1)

\* side, placed at line start, is what the text has there
Replays(side, start, text) ==
    /\ start >= 1
    /\ start + Len(side) - 1 <= Len(text)
    /\ \A i \in 1..Len(side) : text[start + i - 1] = side[i]

\* the hunks give back both texts: each side of each hunk is the text at its
\* start line, and the lines no hunk covers are the same in both texts
Reconstructs(markerIsLine, markerMarks) ==
    LET hunks == fileDiffs[1].hunks
        A == splitLines(oldContent)
        B == splitLines(newContent)
    IN /\ \A h \in 1..Len(hunks) :
              /\ Replays(OldSide(hunks[h], markerIsLine, markerMarks), hunks[h].oldStart, A)
              /\ Replays(NewSide(hunks[h], markerIsLine, markerMarks), hunks[h].newStart, B)
       /\ Outside(A, Covered(hunks, TRUE, markerIsLine, markerMarks), 1)
              = Outside(B, Covered(hunks, FALSE, markerIsLine, markerMarks), 1)
       /\ oldContent # newContent => hunks # << >>

C9_NoChangeNoLines ==
    /\ Parsed /\ oldContent = newContent =>
           Len(fileDiffs) = 1 /\ fileDiffs[1].hunks = << >>
    /\ dpc = "parsed" => fileDiffs # << >> /\ ENABLED GetChangedLineNumbers
    /\ Extracted /\ fileDiffs[1].hunks = << >> => changedLineNumbers = << >>
    /\ Extracted /\ oldContent = newContent => changedLineNumbers = << >>

C9_Witness ==
    /\ Extracted
    /\ oldContent = newContent
    /\ Len(oldContent) >= 2
    /\ fileDiffs[1].hunks = << >>
    /\ changedLineNumbers = << >>

\* number of added lines in the hunks
RECURSIVE AddedCount(_)
AddedCount(hunks) ==
    IF hunks = << >> THEN 0
    ELSE Cardinality({ l \in 1..Len(hunks[1].lines) : hunks[1].lines[l][1] = "+" })
         + AddedCount(Tail(hunks))

\* C21: the list getChangedLineNumbers returns for a parsed file diff is strictly
\* increasing, within a hunk and from one hunk to the next, and has one entry
\* for every added line of the hunks.
C21_StrictlyIncreasing ==
    Extracted =>
        /\ \A i, j \in 1..Len(changedLineNumbers) :
               i < j => changedLineNumbers[i] < changedLineNumbers[j]
        /\ Len(changedLineNumbers) = AddedCount(fileDiffs[1].hunks)

\* two hunks, each with an added line, the second one next to another added line
C21_Witness ==
    /\ Extracted
    /\ Len(fileDiffs[1].hunks) = 2
    /\ Len(changedLineNumbers) >= 3
    /\ changedLineNumbers[1] < fileDiffs[1].hunks[2].newStart
    /\ changedLineNumbers[Len(changedLineNumbers)] > fileDiffs[1].hunks[2].newStart

(***************************************************************************)
(* extractDefinitionBlock as a function of its arguments.  The documents   *)
(* are all sequences of up to MaxDocLines lines of five kinds, and long    *)
(* documents of plain lines with declarations at chosen places, which      *)
(* reach beyond the window of the upward scan.                             *)
(***************************************************************************)
\* the collector and runDefinitionTracking are not running
CollectorIdle ==
    /\ refs = [site \in Sites |-> << >>]
    /\ changedLines = << >> /\ maxDepth = 0 /\ maxCharsPerFile = 0
    /\ stack = << >> /\ visited = {} /\ results = << >>
    /\ opened = << >> /\ resolved = << >> /\ faults = 0
    /\ status = "idle"
    /\ cancellation = NotCancelled
    /\ tracking = NotTracking
    /\ pending = NotPending

\* line 146: startLineIndex - 20
ScanWindow == 20

\* kinds of lines:  "  x = 1;"  "function f() {"  "function f()"  "{"  "}"
PlainLine == TextLine(FALSE, 0, 0, 8, << >>)
DeclOpenLine == TextLine(TRUE, 1, 0, 14, << >>)
DeclLine == TextLine(TRUE, 0, 0, 12, << >>)
OpenLine == TextLine(FALSE, 1, 0, 1, << >>)
CloseLine == TextLine(FALSE, 0, 1, 1, << >>)
LineKinds == { PlainLine, DeclOpenLine, DeclLine, OpenLine, CloseLine }

ShortDocs == UNION { [1..n -> LineKinds] : n \in 1..MaxDocLines }

\* plain lines with a declaration at every index of the set declAt
LongDoc(declAt) ==
    [i \in 1..(ScanWindow + 2) |-> IF (i - 1) \in declAt THEN DeclLine ELSE PlainLine]
LongDocs == { LongDoc(declAt) : declAt \in SUBSET { 0, 1, ScanWindow \div 2 } }

\* the maxCharsPerFile settings: a few lines, and more than any document here
BlockBudgets == { 12, 20000 }

InitBlock ==
    /\ \E doc \in ShortDocs \cup LongDocs :
           \E startLineIndex \in 0..(lineCount(doc) - 1), maxChars \in BlockBudgets :
               extraction = [ pc |-> "called", doc |-> doc,
                              startLineIndex |-> startLineIndex, maxChars |-> maxChars ]
    /\ lexing = NotInUse /\ webview = NotInUse /\ session = NotInUse
    /\ CollectorIdle
    /\ DiffIdle

\* lines 137-186
ExtractDefinitionBlock ==
    /\ extraction.pc = "called"
    /\ extraction' = [ pc |-> "returned", doc |-> extraction.doc,
                       startLineIndex |-> extraction.startLineIndex,
                       maxChars |-> extraction.maxChars,
                       block |-> extractDefinitionBlock(extraction.doc,
                                                        extraction.startLineIndex,
                                                        extraction.maxChars) ]
    /\ UNCHANGED << gatherVars, diffVars, lexing, webview, session >>

NextBlock == ExtractDefinitionBlock

SpecBlock == InitBlock /\ [][NextBlock]_vars

(***************************************************************************)
(* Properties of extractDefinitionBlock.                                   *)
(***************************************************************************)
BlockReturned == extraction.pc = "returned"

\* the 0-based index of the resolved line, of the block start and the block end
ResolvedLine == extraction.startLineIndex
FirstLine == extraction.block.startLine - 1
LastLine == extraction.block.endLine - 1
LastOfFile == lineCount(extraction.doc) - 1

RECURSIVE NetBraces(_, _, _)
NetBraces(doc, from, to) ==
    IF from > to THEN 0
    ELSE lineAt(doc, from).opens - lineAt(doc, from).closes + NetBraces(doc, from + 1, to)

RECURSIVE CharCount(_, _, _)
CharCount(doc, from, to) ==
    IF from > to THEN 0 ELSE lineAt(doc, from).len + 1 + CharCount(doc, from + 1, to)

\* after line i the nesting is back to zero and a brace has opened since line from
Balanced(doc, from, i) ==
    /\ \E j \in from..i : lineAt(doc, j).opens > 0
    /\ NetBraces(doc, from, i) = 0

OverBudget(doc, from, i, maxChars) == CharCount(doc, from, i) > maxChars

\* the lines at which the scan from the block start stops
Stops ==
    { i \in FirstLine..LastOfFile :
          \/ Balanced(extraction.doc, FirstLine, i)
          \/ OverBudget(extraction.doc, FirstLine, i, extraction.maxChars) }

BlockEndIs(otherwise) ==
    LastLine = IF Stops = {} THEN otherwise
               ELSE CHOOSE i \in Stops : \A j \in Stops : i <= j

\* C22 as claimed: the block ends at the first line where the braces are balanced
\* or the budget is exceeded, and at the last line of the file when there is no
\* such line.
C22_BlockEndOrEndOfFile == BlockReturned => BlockEndIs(LastOfFile)

\* C22: the block ends at the first line where the braces opened since the
\* block start are balanced or where the character count exceeds the budget,
\* and at the block start line itself when there is no such line.
C22_BlockEndOrBlockStart == BlockReturned => BlockEndIs(FirstLine)

\* a block that opens a brace and never closes it, in a file of several lines
\* within the budget
C22_Witness ==
    /\ BlockReturned
    /\ Stops = {}
    /\ lineAt(extraction.doc, FirstLine).opens > 0
    /\ FirstLine < LastOfFile
    /\ LastLine = FirstLine

\* the declaration lines in the window of the upward scan
DeclarationsAbove ==
    { i \in Max(0, ResolvedLine - ScanWindow)..ResolvedLine : lineAt(extraction.doc, i).decl }

\* C23: the block start is the nearest declaration line at or above the
\* resolved line among the 20 lines above it, and the resolved line when there
\* is none, so that resolvedLine - 20 <= blockStart <= resolvedLine.
C23_BlockStart ==
    BlockReturned =>
        /\ ResolvedLine - ScanWindow <= FirstLine /\ FirstLine <= ResolvedLine
        /\ FirstLine >= 0
        /\ DeclarationsAbove = {} => FirstLine = ResolvedLine
        /\ DeclarationsAbove # {} =>
               /\ FirstLine \in DeclarationsAbove
               /\ \A i \in DeclarationsAbove : i <= FirstLine

\* the only declaration is 21 lines above the resolved line
C23_Witness ==
    /\ BlockReturned
    /\ ResolvedLine = ScanWindow + 1
    /\ lineAt(extraction.doc, 0).decl
    /\ DeclarationsAbove = {}
    /\ FirstLine = ResolvedLine

\* no line from the block start on has a brace
NoBraces ==
    \A i \in FirstLine..LastOfFile :
        lineAt(extraction.doc, i).opens = 0 /\ lineAt(extraction.doc, i).closes = 0

\* C24: for a document without braces from the block start on, the block is
\* the resolved line alone, and the content is its text cut to the budget.
C24_SingleResolvedLine ==
    (BlockReturned /\ NoBraces) =>
        /\ extraction.block.startLine = ResolvedLine + 1
        /\ extraction.block.endLine = ResolvedLine + 1
        /\ extraction.block.content.from = ResolvedLine
        /\ extraction.block.content.length
               <= Min(lineAt(extraction.doc, ResolvedLine).len + 1, extraction.maxChars)

(***************************************************************************)
(* Further properties of the collector.                                    *)
(***************************************************************************)
Midpoint(d) == (d.startLine + d.endLine) \div 2

\* C25: the step that records a DefinitionContext also enters gatherRecursive
\* for the definition file, one level deeper, with the seed list
\* [startLine, floor((startLine + endLine) / 2)] of the record and nothing else.
C25_RecursionStep ==
    [][ Len(results') > Len(results) =>
            LET d == results'[Len(results')]
            IN /\ Len(results') = Len(results) + 1
               /\ Len(stack') = Len(stack) + 1
               /\ stack'[Len(stack')] = Frame(d.definitionFile,
                                              << d.startLine, Midpoint(d) >>,
                                              Top.currentDepth + 1) ]_vars

\* the block of Z was just recorded from Y, two levels below the top-level call,
\* and the call for Z is entered with the start line and the midpoint
C25_Witness ==
    /\ Running /\ Len(stack) = 3
    /\ Top.pc = "enter" /\ Top.currentDepth = 2
    /\ results # << >>
    /\ LET d == results[Len(results)]
       IN /\ d.definitionFile = Top.fileUri
          /\ d.originFile = stack[2].fileUri
          /\ d.startLine < d.endLine
          /\ Top.targetLines = << d.startLine, Midpoint(d) >>

\* C26: a call of gatherRecursive that enters a file already visited in the
\* traversal returns at once: it asks the resolver nothing, adds no key, and
\* leaves the result list, with the records of the first visit, as it is.
C26_VisitedFileSkipped ==
    [][ (Running /\ Top.pc = "enter" /\ FileKey(Top.fileUri) \in visited) =>
            /\ stack' = Pop
            /\ resolved' = resolved
            /\ results' = results
            /\ visited' = visited ]_vars

\* X was opened by the top-level call, by the extraction of its block for Y,
\* and by the call that entered it again and returned; Y's call goes on
C26_Witness ==
    /\ Running /\ faults = 0
    /\ Len(stack) = 2 /\ Top.fileUri = "Y" /\ Top.pc = "locs"
    /\ Count(opened, "X") = 3
    /\ \E i \in 1..Len(results) : results[i].definitionFile = "X"
    /\ \E i \in 1..Len(results) : results[i].originFile = "X"

\* C27: every record of the result has 1 <= startLine <= endLine <= the line
\* count of its definition file, and the midpoint seed lies in the block.
C27_LineRange ==
    \A i \in 1..Len(results) :
        LET d == results[i]
        IN /\ 1 <= d.startLine
           /\ d.startLine <= d.endLine
           /\ d.endLine <= lineCount(TextDocument(d.definitionFile))
           /\ d.startLine <= Midpoint(d) /\ Midpoint(d) <= d.endLine

\* a block that runs to the last line of its file, and a block of one line whose
\* scan reached the end of the file
C27_Witness ==
    /\ \E i \in 1..Len(results) :
           /\ results[i].startLine < Midpoint(results[i])
           /\ results[i].endLine = lineCount(TextDocument(results[i].definitionFile))
    /\ \E i \in 1..Len(results) :
           /\ results[i].startLine = results[i].endLine
           /\ results[i].endLine < lineCount(TextDocument(results[i].definitionFile))

(***************************************************************************)
(* extractIdentifiers as a function of the line text.  A text is a         *)
(* sequence of characters; "F" stands for a capital letter.                *)
(***************************************************************************)
LineAlphabet == { "F", "(", "/", "*", " " }
LineTexts == UNION { [1..n -> LineAlphabet] : n \in 0..MaxLineLen }

\* pat occurs in text at the 1-based position i
OccursAt(text, pat, i) ==
    /\ i >= 1 /\ i + Len(pat) - 1 <= Len(text)
    /\ SubSeq(text, i, i + Len(pat) - 1) = pat

\* line 194: lineText.replace(/\/\/.*$/, '')
StripLineComment(text) ==
    LET at == { i \in 1..Len(text) : OccursAt(text, << "/", "/" >>, i) }
    IN IF at = {} THEN text
       ELSE SubSeq(text, 1, (CHOOSE i \in at : \A j \in at : i <= j) - 1)

\* line 194: .replace(/\/\*.*?\*\//g, ''), scanning from position i
RECURSIVE StripBlockComments(_, _)
StripBlockComments(text, i) ==
    IF i > Len(text) THEN << >>
    ELSE LET closes == { k \in (i + 2)..Len(text) : OccursAt(text, << "*", "/" >>, k) }
         IN IF OccursAt(text, << "/", "*" >>, i) /\ closes # {}
            THEN StripBlockComments(text, (CHOOSE k \in closes : \A j \in closes : k <= j) + 2)
            ELSE << text[i] >> \o StripBlockComments(text, i + 1)

IsWordChar(ch) == ch = "F"

\* the last position of the run of word characters that starts at i
RECURSIVE EndOfWord(_, _)
EndOfWord(text, i) ==
    IF i + 1 <= Len(text) /\ IsWordChar(text[i + 1]) THEN EndOfWord(text, i + 1) ELSE i

\* the first position at or after i that holds no white space
RECURSIVE SkipSpaces(_, _)
SkipSpaces(text, i) ==
    IF i <= Len(text) /\ text[i] = " " THEN SkipSpaces(text, i + 1) ELSE i

\* lines 195-200: the matches of /\b([A-Z][a-zA-Z0-9_]*|...)\s*[\.(]/g from position
\* i on, each pushed as { name: match[1], col: match.index }
RECURSIVE MatchIdentifiers(_, _)
MatchIdentifiers(text, i) ==
    IF i > Len(text) THEN << >>
    ELSE IF IsWordChar(text[i]) /\ (i = 1 \/ ~IsWordChar(text[i - 1]))
         THEN LET last == EndOfWord(text, i)
                  paren == SkipSpaces(text, last + 1)
              IN IF paren <= Len(text) /\ text[paren] = "("
                 THEN << [ name |-> SubSeq(text, i, last), col |-> i - 1 ] >>
                      \o MatchIdentifiers(text, paren + 1)
                 ELSE MatchIdentifiers(text, i + 1)
    ELSE MatchIdentifiers(text, i + 1)

\* lines 191-203
extractIdentifiersOfText(lineText) ==
    LET stripped == StripBlockComments(StripLineComment(lineText), 1)
    IN MatchIdentifiers(stripped, 1)

InitLexing ==
    /\ lexing \in { [ pc |-> "called", lineText |-> t ] : t \in LineTexts }
    /\ extraction = NotInUse /\ webview = NotInUse /\ session = NotInUse
    /\ CollectorIdle
    /\ DiffIdle

\* line 60: const identifiers = extractIdentifiers(lineText)
ExtractIdentifiers ==
    /\ lexing.pc = "called"
    /\ lexing' = [ pc |-> "returned", lineText |-> lexing.lineText,
                   identifiers |-> extractIdentifiersOfText(lexing.lineText) ]
    /\ UNCHANGED << gatherVars, diffVars, extraction, webview, session >>

NextLexing == ExtractIdentifiers

SpecLexing == InitLexing /\ [][NextLexing]_vars

\* C28: every identifier extractIdentifiers returns starts, in the original line
\* text, at the index col: the characters from col on are its name, and no word
\* character stands before them.
C28_ColumnIsRealPosition ==
    lexing.pc = "returned" =>
        \A n \in 1..Len(lexing.identifiers) :
            LET id == lexing.identifiers[n]
            IN /\ OccursAt(lexing.lineText, id.name, id.col + 1)
               /\ id.col = 0 \/ ~IsWordChar(lexing.lineText[id.col])

(***************************************************************************)
(* The review panel (ui/reviewPanel.ts) and the command                    *)
(* backlogReview.postComment.  webview holds                               *)
(*   instance  - whether ReviewPanel.instance is set                       *)
(*   html      - what the panel shows: "none", "loading", "result", "error" *)
(*   listeners - the listeners registered with panel.webview               *)
(*               .onDidReceiveMessage                                      *)
(*   reviews   - the calls of executeReview so far                         *)
(*   comments  - for every 'postComment' message the webview sent, the     *)
(*               number of calls of BacklogClient.addIssueComment          *)
(***************************************************************************)
InitPanel ==
    /\ webview = [ pc |-> "ready", instance |-> FALSE, html |-> "none", listeners |-> 0,
                   reviews |-> 0, comments |-> << >> ]
    /\ extraction = NotInUse /\ lexing = NotInUse /\ session = NotInUse
    /\ CollectorIdle
    /\ DiffIdle

PanelFrame == << gatherVars, diffVars, extraction, lexing, session >>

\* extension.ts lines 452-455 and reviewPanel.ts lines 18-46: executeReview takes
\* the panel, the instance if there is one and a new panel otherwise, and shows
\* the loading page
CreateOrShow ==
    /\ webview.pc = "ready"
    /\ webview.reviews < MaxReviews
    /\ webview' = [webview EXCEPT
                      !.pc = "reviewing",
                      !.instance = TRUE,
                      !.listeners = IF webview.instance THEN @ ELSE 0,
                      !.html = "loading",
                      !.reviews = @ + 1]
    /\ UNCHANGED PanelFrame

\* extension.ts line 504 and reviewPanel.ts lines 51-75: showResult sets the
\* page and registers a listener with onDidReceiveMessage
ShowResult ==
    /\ webview.pc = "reviewing"
    /\ webview' = [webview EXCEPT
                      !.pc = "ready",
                      !.html = IF webview.instance THEN "result" ELSE "none",
                      !.listeners = IF webview.instance THEN @ + 1 ELSE @]
    /\ UNCHANGED PanelFrame

\* extension.ts lines 469-474 and 506-509: the review ends with showError
ShowError ==
    /\ webview.pc = "reviewing"
    /\ webview' = [webview EXCEPT
                      !.pc = "ready",
                      !.html = IF webview.instance THEN "error" ELSE "none"]
    /\ UNCHANGED PanelFrame

\* reviewPanel.ts lines 13-15: the user closes the panel; its webview and the
\* listeners of the webview are gone and the instance is cleared
DisposePanel ==
    /\ webview.instance
    /\ webview' = [webview EXCEPT !.instance = FALSE, !.html = "none", !.listeners = 0]
    /\ UNCHANGED PanelFrame

\* the post button sends one 'postComment' message; every registered listener
\* (reviewPanel.ts lines 66-74) executes backlogReview.postComment, which calls
\* addIssueComment once (extension.ts lines 137-141)
PostComment ==
    /\ webview.instance /\ webview.html = "result"
    /\ Len(webview.comments) < MaxClicks
    /\ webview' = [webview EXCEPT !.comments = Append(@, webview.listeners)]
    /\ UNCHANGED PanelFrame

NextPanel ==
    \/ CreateOrShow
    \/ ShowResult
    \/ ShowError
    \/ DisposePanel
    \/ PostComment

SpecPanel == InitPanel /\ [][NextPanel]_vars

\* C29: for every 'postComment' message of the webview, addIssueComment is
\* called exactly once, however many results were shown in the panel before.
C29_SinglePost ==
    webview.pc # "idle" =>
        \A i \in 1..Len(webview.comments) : webview.comments[i] = 1

(***************************************************************************)
(* The command backlogReview.startReview (extension.ts lines 44-104) and   *)
(* promptForConfig.  session holds                                         *)
(*   settings - the stored configuration 'backlogReview' (spaceKey, apiKey) *)
(*   cfg      - the object getConfig() returned at line 45                 *)
(*   prompted - whether promptForConfig returned true in this execution    *)
(*   clients  - the BacklogClients constructed at line 51, each with the   *)
(*              settings stored at that moment                             *)
(*   reviews  - the cfg objects passed to executeReview                    *)
(*   runs     - executions of the command so far                           *)
(***************************************************************************)
\* what the settings hold and what the user types; "" is an unset setting, and
\* an input box that was dismissed or left empty
SpaceKeys == { "", "acme", "corp" }
ApiKeys == { "", "k1", "k2" }

\* getConfig(): the stored values at the time of the call
getConfig(settings) == [ spaceKey |-> settings.spaceKey, apiKey |-> settings.apiKey ]

InitSession ==
    /\ \E sk \in SpaceKeys, ak \in ApiKeys :
           session = [ pc |-> "ready",
                       settings |-> [ spaceKey |-> sk, apiKey |-> ak ],
                       cfg |-> [ spaceKey |-> "", apiKey |-> "" ],
                       prompted |-> FALSE,
                       clients |-> << >>, reviews |-> << >>, runs |-> 0 ]
    /\ extraction = NotInUse /\ lexing = NotInUse /\ webview = NotInUse
    /\ CollectorIdle
    /\ DiffIdle

SessionFrame == << gatherVars, diffVars, extraction, lexing, webview >>

\* lines 45-46: const cfg = getConfig(); if (!cfg.spaceKey || !cfg.apiKey) ...
StartReview ==
    /\ session.pc = "ready"
    /\ session.runs < MaxRuns
    /\ LET cfg == getConfig(session.settings)
       IN session' = [session EXCEPT
                         !.cfg = cfg,
                         !.prompted = FALSE,
                         !.runs = @ + 1,
                         !.pc = IF cfg.spaceKey = "" \/ cfg.apiKey = ""
                                THEN "spaceKey" ELSE "client"]
    /\ UNCHANGED SessionFrame

\* promptForConfig, part_003 lines 256-264: the space key is asked for when it
\* is unset, and stored; without an input promptForConfig returns false and the
\* command returns (line 48)
PromptSpaceKey ==
    /\ session.pc = "spaceKey"
    /\ IF session.settings.spaceKey # ""
       THEN session' = [session EXCEPT !.pc = "apiKey"]
       ELSE \E input \in SpaceKeys :
                session' = IF input = ""
                           THEN [session EXCEPT !.pc = "ready"]
                           ELSE [session EXCEPT !.settings.spaceKey = input,
                                                !.pc = "apiKey"]
    /\ UNCHANGED SessionFrame

\* promptForConfig, part_003 lines 266-277: the same for the API key; with both
\* stored promptForConfig returns true
PromptApiKey ==
    /\ session.pc = "apiKey"
    /\ IF session.settings.apiKey # ""
       THEN session' = [session EXCEPT !.pc = "client", !.prompted = TRUE]
       ELSE \E input \in ApiKeys :
                session' = IF input = ""
                           THEN [session EXCEPT !.pc = "ready"]
                           ELSE [session EXCEPT !.settings.apiKey = input,
                                                !.pc = "client", !.prompted = TRUE]
    /\ UNCHANGED SessionFrame

\* line 51: new BacklogClient(cfg.spaceKey, cfg.apiKey, cfg.domain)
ConstructClient ==
    /\ session.pc = "client"
    /\ session' = [session EXCEPT
                      !.clients = Append(@, [ spaceKey |-> session.cfg.spaceKey,
                                              apiKey |-> session.cfg.apiKey,
                                              prompted |-> session.prompted,
                                              stored |-> session.settings ]),
                      !.pc = "target"]
    /\ UNCHANGED SessionFrame

\* lines 54-75 and 79-100: a pull request or a branch pair is selected and
\* executeReview is called with cfg
ExecuteReview ==
    /\ session.pc = "target"
    /\ session' = [session EXCEPT !.reviews = Append(@, session.cfg), !.pc = "ready"]
    /\ UNCHANGED SessionFrame

\* lines 60-63, 84-87, 101-103: nothing to review, an error message is shown
NoReviewTarget ==
    /\ session.pc = "target"
    /\ session' = [session EXCEPT !.pc = "ready"]
    /\ UNCHANGED SessionFrame

NextSession ==
    \/ StartReview
    \/ PromptSpaceKey
    \/ PromptApiKey
    \/ ConstructClient
    \/ ExecuteReview
    \/ NoReviewTarget

SpecSession == InitSession /\ [][NextSession]_vars

\* C30: every BacklogClient startReview constructs has a non-empty spaceKey and
\* apiKey, those stored in the settings at that moment, also when they were
\* entered in promptForConfig during the same execution; the cfg passed to
\* executeReview has them too.
C30_ClientHasCredentials ==
    session.pc # "idle" =>
        /\ \A i \in 1..Len(session.clients) :
               LET client == session.clients[i]
               IN /\ client.spaceKey # "" /\ client.apiKey # ""
                  /\ client.spaceKey = client.stored.spaceKey
                  /\ client.apiKey = client.stored.apiKey
        /\ \A i \in 1..Len(session.reviews) :
               session.reviews[i].spaceKey # "" /\ session.reviews[i].apiKey # ""

====
